---- MODULE Spec2Model ----
(***************************************************************************)
(* Model of the Apple Search Ads CLI workflows `optimize expand` and       *)
(* `brand` (asa_api_cli/optimize.py, asa_api_cli/brand.py): keyword        *)
(* aggregation, plan building, the visibility poll wait_for_resource and   *)
(* the orchestration of create calls against the API client.               *)
(*                                                                         *)
(* The API client is the environment: every call either returns or raises, *)
(* chosen nondeterministically.  Money amounts are integers in cents.      *)
(***************************************************************************)
EXTENDS Integers, Sequences, FiniteSets, TLC

(* ---------------------------- bounds ----------------------------------- *)
\* most source campaigns of one expand run
MaxSources == 2
\* most report rows read in one expand run (over all source reports)
MaxRows == 3
\* most --country options / brand variants of one brand run
MaxCountries == 2
\* the longest list of source bids of one keyword
MaxBids == 3
\* the longest keyword text an ad group is named after
MaxTextLen == 195
\* most " - "-separated parts of a campaign name
MaxParts == 5
\* most ad groups one bid-check scan meets
MaxScanned == 2
\* most keywords of a scanned ad group
MaxKeywords == 2

(* ------------------------ program constants ---------------------------- *)
\* wait_for_resource(max_attempts=10)
MAX_ATTEMPTS == 10
\* plan_budget = Decimal("100"), in cents
FALLBACK_BUDGET == 10000
\* if len(ag_name) > 200: the limit on ad-group names
MAX_NAME_LEN == 200
\* ag_name[:197] + "..."
KEPT_NAME_LEN == 197

(* --------------------------- input universes --------------------------- *)
\* keyword texts as they may come back in a report row; "" is a missing keyword
KeywordTexts == {"Todo", "todo", "plan", "App"}
ImpressionValues == {0, 2}
BidValues == {100}
\* country codes as typed on the command line
CountryInputs == {"US", "us", "gb", "CN", "cn", "XX"}
\* brand name / variants as typed
BrandInputs == {"Chippy", "chippy", "Chippy Tool"}

\* str.lower() on the strings of the model
Lower(s) ==
    CASE s = "Todo" -> "todo"
      [] s = "App" -> "app"
      [] s = "Chippy" -> "chippy"
      [] s = "Chippy Tool" -> "chippy tool"
      [] s = "QUIT" -> "quit"
      [] OTHER -> s

\* str.upper() on the country codes of the model
Upper(s) ==
    CASE s = "gb" -> "GB"
      [] s = "us" -> "US"
      [] s = "cn" -> "CN"
      [] s = "de" -> "DE"
      [] s = "em" -> "EM"
      [] s = "Exact" -> "EXACT"
      [] s = "Match" -> "MATCH"
      [] s = "broad" -> "BROAD"
      [] s = "Broad" -> "BROAD"
      [] s = "match" -> "MATCH"
      [] s = "Search" -> "SEARCH"
      [] s = "Chippy" -> "CHIPPY"
      [] s = "Generic" -> "GENERIC"
      [] OTHER -> s

\* a report row: metadata.keyword, total (may be missing), metadata.bid_amount (may be missing)
Rows ==
    { [keyword |-> k, has_total |-> TRUE, impressions |-> n, has_bid |-> TRUE, bid |-> b] :
          k \in KeywordTexts \cup {""}, n \in ImpressionValues, b \in BidValues }
    \cup
    { [keyword |-> k, has_total |-> TRUE, impressions |-> n, has_bid |-> FALSE, bid |-> 0] :
          k \in KeywordTexts, n \in ImpressionValues }
    \cup
    { [keyword |-> k, has_total |-> FALSE, impressions |-> 0, has_bid |-> TRUE, bid |-> b] :
          k \in KeywordTexts, b \in BidValues }

NoRow == [keyword |-> "", has_total |-> FALSE, impressions |-> 0, has_bid |-> FALSE, bid |-> 0]

\* the sequences over S of length up to n
SeqsUpTo(S, n) == UNION { [1..m -> S] : m \in 0..n }

(* ------------------- insertion-ordered dictionaries -------------------- *)
\* a Python dict is a sequence of [k, v] entries in insertion order
DictKeys(d) == { d[j].k : j \in 1..Len(d) }
DictHas(d, key) == key \in DictKeys(d)
DictIndex(d, key) == CHOOSE j \in 1..Len(d) : d[j].k = key
\* defaultdict lookup: the default when the key is missing
DictGet(d, key, default) == IF DictHas(d, key) THEN d[DictIndex(d, key)].v ELSE default
\* d[key] = value, a new key going to the end
DictPut(d, key, value) ==
    IF DictHas(d, key)
    THEN [d EXCEPT ![DictIndex(d, key)] = [k |-> key, v |-> value]]
    ELSE Append(d, [k |-> key, v |-> value])

RECURSIVE SumSeq(_)
SumSeq(s) == IF s = <<>> THEN 0 ELSE Head(s) + SumSeq(Tail(s))

(* ------------------------- keyword aggregation ------------------------- *)
\* keyword_impressions[kw_text] += impressions
AddImpressions(ki, row) ==
    DictPut(ki, Lower(row.keyword), DictGet(ki, Lower(row.keyword), 0) + row.impressions)

\* the mutant: the bid is appended whether or not the row carries one
AppendBidAlways(kb, row) ==
    DictPut(kb, Lower(row.keyword), Append(DictGet(kb, Lower(row.keyword), <<>>), row.bid))

\* if row.metadata.bid_amount: keyword_bids[kw_text].append(Decimal(amount))
AppendBid(kb, row) ==
    IF row.has_bid
    THEN DictPut(kb, Lower(row.keyword), Append(DictGet(kb, Lower(row.keyword), <<>>), row.bid))
    ELSE kb

\* the mutant: rows with zero impressions are counted too
RowCountsAnyImpressions(row) == row.keyword # "" /\ row.has_total

\* if row.metadata.keyword and row.total: ... if impressions > 0:
RowCounts(row) == row.keyword # "" /\ row.has_total /\ row.impressions > 0

\* one iteration of `for row in report.row`, on the pair of dictionaries
AggregateRow(ki, kb, row) ==
    IF RowCounts(row)
    THEN [ki |-> AddImpressions(ki, row), kb |-> AppendBid(kb, row)]
    ELSE [ki |-> ki, kb |-> kb]

\* keyword_bids = {k: v for k, v in keyword_bids.items() if k in active_keywords}
FilterActive(ki, kb) == SelectSeq(kb, LAMBDA e : e.k \in DictKeys(ki))

(* ----------------------------- plan building ---------------------------- *)
\* the mutant: the mean is cut to cents, not rounded
TruncatedMean(bids) == SumSeq(bids) \div Len(bids)

\* round(Decimal(sum(bids) / len(bids)), 2) in cents: Decimal rounds half to even
RoundedMean(bids) ==
    LET total == SumSeq(bids)
        n == Len(bids)
        q == total \div n
        twice == 2 * (total % n)
    IN  IF twice < n THEN q
        ELSE IF twice > n THEN q + 1
        ELSE IF q % 2 = 0 THEN q ELSE q + 1

\* KeywordPlan(text, bid, currency, source_count, impressions, source_bids)
KeywordPlanOf(ki, entry) ==
    [text |-> entry.k,
     bid |-> RoundedMean(entry.v),
     source_count |-> Len(entry.v),
     impressions |-> DictGet(ki, entry.k, 0),
     source_bids |-> entry.v]

\* for text, bids in keyword_bids.items(): keyword_plans.append(KeywordPlan(...))
KeywordPlans(ki, kb) == [j \in 1..Len(kb) |-> KeywordPlanOf(ki, kb[j])]

\* AdGroupCreate(default_bid_amount=Money(amount=str(ag_plan.keyword.bid), ...))
DefaultBidAmount(kp) == kp.bid

\* KeywordCreate(text=..., bid_amount=Money(amount=str(ag_plan.keyword.bid), ...))
KeywordBidAmount(kp) == kp.bid

\* list.sort(key=impressions, reverse=True): a stable sort, equal keys keep their order
RECURSIVE InsertByImpressions(_, _)
InsertByImpressions(sorted, kp) ==
    IF sorted = <<>> THEN <<kp>>
    ELSE IF Head(sorted).impressions >= kp.impressions
         THEN <<Head(sorted)>> \o InsertByImpressions(Tail(sorted), kp)
         ELSE <<kp>> \o sorted

\* the mutant: the keyword plans are left in the order of the dictionary
SortNone(plans) == plans

RECURSIVE SortByImpressions(_)
SortByImpressions(plans) ==
    IF plans = <<>> THEN <<>>
    ELSE InsertByImpressions(SortByImpressions(SubSeq(plans, 1, Len(plans) - 1)),
                             plans[Len(plans)])

\* an option or a field that may be None: <<>> when it is, else <<value>>
None == <<>>
Some(v) == <<v>>

\* the values of the options or fields of a list that are not None
Values(q) ==
    LET given == SelectSeq(q, LAMBDA b : b # None)
    IN  [j \in 1..Len(given) |-> given[j][1]]

RECURSIVE GCD(_, _)
GCD(a, b) == IF b = 0 THEN a ELSE GCD(b, a % b)

\* a Decimal quotient a / b as a fraction in lowest terms, in cents
Ratio(a, b) ==
    LET g == GCD(a, b)
    IN  IF a = 0 THEN [num |-> 0, den |-> 1] ELSE [num |-> a \div g, den |-> b \div g]

\* the mutant: `if daily_budget:`, a --budget of 0 counts as not given
PlanBudgetTruthy(daily_budget, source_campaign_budgets) ==
    LET source_budgets == Values(source_campaign_budgets)
    IN  IF daily_budget # None /\ daily_budget[1] # 0 THEN Ratio(daily_budget[1], 1)
        ELSE IF source_budgets # <<>>
             THEN Ratio(SumSeq(source_budgets), Len(source_budgets))
             ELSE Ratio(FALLBACK_BUDGET, 1)

\* plan_budget: --budget when given, else the mean of the sources' daily budgets,
\* else 100; source_campaign_budgets holds each source's daily_budget_amount or None
PlanBudget(daily_budget, source_campaign_budgets) ==
    LET source_budgets == Values(source_campaign_budgets)
    IN  IF daily_budget # None THEN Ratio(daily_budget[1], 1)
        ELSE IF source_budgets # <<>>
             THEN Ratio(SumSeq(source_budgets), Len(source_budgets))
             ELSE Ratio(FALLBACK_BUDGET, 1)

(* --------------------------- campaign names ---------------------------- *)
\* a campaign name is a sequence of tokens: words, and the characters " " and "-"
Sep == <<" ", "-", " ">>

\* the first place at or after i where " - " starts in name, 0 when there is none
RECURSIVE FindSep(_, _)
FindSep(name, i) ==
    IF i + 2 > Len(name) THEN 0
    ELSE IF SubSeq(name, i, i + 2) = Sep THEN i
    ELSE FindSep(name, i + 1)

\* name.split(" - ")
RECURSIVE Split(_)
Split(name) ==
    LET i == FindSep(name, 1)
    IN  IF i = 0 THEN <<name>>
        ELSE <<SubSeq(name, 1, i - 1)>> \o Split(SubSeq(name, i + 3, Len(name)))

\* p.strip()
RECURSIVE StripTokens(_)
StripTokens(p) ==
    IF p = <<>> THEN p
    ELSE IF Head(p) = " " THEN StripTokens(Tail(p))
    ELSE IF p[Len(p)] = " " THEN StripTokens(SubSeq(p, 1, Len(p) - 1))
    ELSE p

\* p.upper()
UpperTokens(p) == [j \in 1..Len(p) |-> Upper(p[j])]

ExactMatchLong == <<"Exact", " ", "Match">>
BroadMatchLong == <<"Broad", " ", "Match">>

\* the mutant: "SM" and "SEARCH MATCH" are not taken for a match type
MatchTypeOfNoSearch(match_type_raw) ==
    IF match_type_raw \in {<<"EM">>, <<"EXACT", " ", "MATCH">>} THEN Some("EM")
    ELSE IF match_type_raw \in {<<"BM">>, <<"BROAD", " ", "MATCH">>} THEN Some("BM")
    ELSE None

\* the match type of the upper-cased last part, None when it is no match type
MatchTypeOf(match_type_raw) ==
    IF match_type_raw \in {<<"EM">>, <<"EXACT", " ", "MATCH">>} THEN Some("EM")
    ELSE IF match_type_raw \in {<<"BM">>, <<"BROAD", " ", "MATCH">>,
                                <<"SM">>, <<"SEARCH", " ", "MATCH">>} THEN Some("BM")
    ELSE None

\* the mutant: the country is the third part from the end, and everything before it,
\* joined again, is the app name
ParseFromEnd(name) ==
    LET split == Split(name)
        parts == [j \in 1..Len(split) |-> StripTokens(split[j])]
        match_type == MatchTypeOf(UpperTokens(parts[Len(parts)]))
        JoinUpTo[n \in 0..Len(parts)] ==
            IF n = 0 THEN <<>> ELSE IF n = 1 THEN parts[1] ELSE JoinUpTo[n - 1] \o Sep \o parts[n]
    IN  IF Len(parts) < 4 THEN None
        ELSE IF match_type = None THEN None
        ELSE Some([app_name |-> JoinUpTo[Len(parts) - 3],
                   country |-> UpperTokens(parts[Len(parts) - 2]),
                   campaign_type |-> parts[Len(parts) - 1],
                   match_type |-> match_type[1],
                   original |-> name])

\* CampaignNameParts.parse(name): None, or Some of the parts
Parse(name) ==
    LET split == Split(name)
        parts == [j \in 1..Len(split) |-> StripTokens(split[j])]
        match_type == MatchTypeOf(UpperTokens(parts[Len(parts)]))
    IN  IF Len(parts) < 4 THEN None
        ELSE IF match_type = None THEN None
        ELSE Some([app_name |-> parts[1],
                   country |-> UpperTokens(parts[2]),
                   campaign_type |-> parts[Len(parts) - 1],
                   match_type |-> match_type[1],
                   original |-> name])

\* the mutant: the match type is written as it is kept, EM or BM
WithCountryShort(self, new_country) ==
    self.app_name \o Sep \o new_country \o Sep \o self.campaign_type \o Sep
        \o <<self.match_type>>

\* CampaignNameParts.with_country(self, new_country)
WithCountry(self, new_country) ==
    LET match_type_full == IF self.match_type = "EM" THEN ExactMatchLong ELSE BroadMatchLong
    IN  self.app_name \o Sep \o new_country \o Sep \o self.campaign_type \o Sep
            \o match_type_full

\* strings whose length matters are sequences of characters
Cased(c) == c \in {"t", "T", "o", "O"}
UpperChar(c) == CASE c = "t" -> "T" [] c = "o" -> "O" [] OTHER -> c
LowerChar(c) == CASE c = "T" -> "t" [] c = "O" -> "o" [] OTHER -> c

\* str.title(): a cased character is upper-cased after an uncased one (or at the
\* start) and lower-cased after a cased one
Title(text) ==
    [j \in 1..Len(text) |->
        IF j > 1 /\ Cased(text[j - 1]) THEN LowerChar(text[j]) ELSE UpperChar(text[j])]

ExactPrefix == <<"E", "x", "a", "c", "t", " ", "-", " ">>
Ellipsis == <<".", ".", ".">>

\* s[:n]: the first n characters, all of s when it has fewer
Slice(s, n) == SubSeq(s, 1, IF n < Len(s) THEN n ELSE Len(s))

\* the mutant: the name is cut at the limit, as the brand command does, with no "..."
AdGroupNameCut(text) ==
    Slice(ExactPrefix \o Title(text), MAX_NAME_LEN)

\* ag_name = f"Exact - {kp.text.title()}"; if len(ag_name) > 200: ag_name[:197] + "..."
AdGroupName(text) ==
    LET ag_name == ExactPrefix \o Title(text)
    IN  IF Len(ag_name) > MAX_NAME_LEN
        THEN Slice(ag_name, KEPT_NAME_LEN) \o Ellipsis
        ELSE ag_name

\* the mutant: the keyword's own text is not left out of its negatives
CrossNegativesWithSelf(all_keywords, text, skip) ==
    IF skip THEN <<>> ELSE all_keywords

\* negatives = [k for k in all_keywords if k != kp.text] if not skip_negatives else []
CrossNegatives(all_keywords, text, skip) ==
    IF skip THEN <<>> ELSE SelectSeq(all_keywords, LAMBDA k : k # text)

\* ad_group_plans: one AdGroupPlan(keyword, negatives) per keyword plan, in order
AdGroupPlans(keyword_plans, skip) ==
    LET all_keywords == [j \in 1..Len(keyword_plans) |-> keyword_plans[j].text]
    IN  [j \in 1..Len(keyword_plans) |->
            [keyword |-> keyword_plans[j],
             negatives |-> CrossNegatives(all_keywords, keyword_plans[j].text, skip)]]

\* steps 3 and 4 of expand_campaign: the ad groups of the CampaignPlan
BuildAdGroups(ki, kb, skip) ==
    AdGroupPlans(SortByImpressions(KeywordPlans(ki, FilterActive(ki, kb))), skip)

(* ------------------------ the visibility poll -------------------------- *)
\* the mutant: every error of check_fn is retried, not only NotFoundError
WaitStepRetryAnyError(attempt, outcome) ==
    IF outcome = "ok" THEN "return"
    ELSE IF attempt < MAX_ATTEMPTS - 1 THEN "sleep"
    ELSE IF outcome = "not_found" THEN "raise_not_found" ELSE "raise_error"

\* the mutant: the last attempt sleeps and the loop runs out one call late
WaitStepOneMore(attempt, outcome) ==
    CASE outcome = "ok" -> "return"
      [] outcome = "not_found" ->
            IF attempt < MAX_ATTEMPTS THEN "sleep" ELSE "raise_not_found"
      [] OTHER -> "raise_error"

\* one iteration of wait_for_resource's loop: what follows the outcome of check_fn()
WaitStep(attempt, outcome) ==
    CASE outcome = "ok" -> "return"
      [] outcome = "not_found" ->
            IF attempt < MAX_ATTEMPTS - 1 THEN "sleep" ELSE "raise_not_found"
      [] OTHER -> "raise_error"

\* what check_fn() may do: return, raise NotFoundError, raise another API error
CheckOutcomes == {"ok", "not_found", "error"}

(* ------------------------------- state --------------------------------- *)
VARIABLES
    cmd,                 \* the command run: "expand", "brand" or an impression-share one
    pc,                  \* the position of the command
    dry_run,             \* --dry-run, FALSE until the command reads it
    skip_negatives,      \* --skip-negatives, FALSE until the command reads it
    sources,             \* len(source_campaign_data)
    src_idx,             \* the source campaign whose report is read
    rows_seen,           \* report rows read so far
    last_row,            \* the row of the last loop iteration
    zero_seen,           \* history: the keywords met in a row with zero impressions
    keyword_impressions, \* dict text -> int
    keyword_bids,        \* dict text -> list of bids
    ad_groups,           \* campaign_plan.ad_groups
    confirmed,           \* the answer to typer.confirm: "unasked", "yes", "no"
    calls,               \* the mutating API calls issued, in order
    reads,               \* the read API calls issued
    warnings,            \* the print_warning calls, in order
    attempt,             \* wait_for_resource: the loop variable
    check_calls,         \* wait_for_resource: calls of check_fn
    sleeps,              \* wait_for_resource: calls of time.sleep
    not_found,           \* wait_for_resource: NotFoundErrors raised by check_fn
    poll_result,         \* wait_for_resource: "idle", "running", "returned", "not_found", "error"
    idx,                 \* the ad group of the plan being created (i)
    created_ad_groups,
    created_keywords,
    created_negatives,
    summary,             \* the result panel, <<>> until printed
    exit_code,           \* <<>> while running, then <<code>>
    include_china,       \* brand: --include-china, FALSE until the command reads it
    all_keywords,        \* brand: the brand keywords
    target_countries,    \* brand: the target countries, one campaign plan each
    plan_idx,            \* brand: the campaign plan being created
    created_campaigns,   \* brand: campaigns created
    all_campaigns,       \* history: the campaigns listed, when the selection ended the command
    error_panel,         \* the title of the error panel printed, "" when none was
    call,                \* a function called on its own: its name and arguments
    result,              \* <<>> until that function has returned, then <<value>>
    version,             \* asa: --version, FALSE until the root callback reads it
    invoked_subcommand,  \* asa: ctx.invoked_subcommand, "" for None
    stdout,              \* the lines printed that the claims look at
    threshold,           \* bid-check: --threshold, in percent
    auto_fix,            \* bid-check: --auto-fix, FALSE until the command reads it
    last_scanned,        \* bid-check: the ad group of the last scan iteration
    discrepancies,       \* bid-check: list[BidDiscrepancy]
    changes_made,        \* bid-check: ad group bids updated
    prompts,             \* bid-check history: the answers typed, with the discrepancy asked about
    force                \* delete: --force, FALSE until the command reads it

aggVars == <<sources, src_idx, rows_seen, last_row, zero_seen, keyword_impressions,
            keyword_bids>>
pollVars == <<attempt, check_calls, sleeps, not_found, poll_result>>
countVars == <<created_ad_groups, created_keywords, created_negatives, created_campaigns>>
flagVars == <<cmd, dry_run, skip_negatives, include_china>>
brandVars == <<all_keywords, target_countries, plan_idx>>
calcVars == <<call, result>>
rootVars == <<version, invoked_subcommand, stdout>>
bidVars == <<threshold, auto_fix, last_scanned, discrepancies, changes_made, prompts>>
cliVars == <<rootVars, bidVars, force>>
vars == <<flagVars, pc, aggVars, ad_groups, confirmed, calls, reads, warnings, pollVars,
          idx, countVars, summary, exit_code, brandVars, all_campaigns, error_panel,
          calcVars, cliVars>>

CreateOps == {"campaigns.create", "ad_groups.create", "keywords.create_bulk",
              "negative_keywords.create_bulk"}

\* an API call of the orchestrator: campaign c, ad group i (0: none), and whether it returned
Call(op, c, i, ok) == [op |-> op, c |-> c, i |-> i, ok |-> ok]

\* the impression-share commands that fetch the report and show it
ShareCommands ==
    {"impression-share analyze", "impression-share report", "impression-share summary"}

\* no ad group scanned yet
NoAdGroup == [id |-> 0, default_bid |-> 0, listed |-> FALSE, keywords |-> <<>>]

\* no function is called on its own while a command runs
NoCall == [fn |-> "none"]

\* the state of a command before its first statement
Fresh ==
    /\ pc = "start"
    /\ dry_run = FALSE
    /\ skip_negatives = FALSE
    /\ include_china = FALSE
    /\ sources = 0
    /\ src_idx = 0
    /\ rows_seen = 0
    /\ last_row = NoRow
    /\ zero_seen = {}
    /\ keyword_impressions = <<>>
    /\ keyword_bids = <<>>
    /\ ad_groups = <<>>
    /\ confirmed = "unasked"
    /\ calls = <<>>
    /\ reads = {}
    /\ warnings = <<>>
    /\ attempt = 0
    /\ check_calls = 0
    /\ sleeps = 0
    /\ not_found = 0
    /\ poll_result = "idle"
    /\ idx = 0
    /\ created_ad_groups = 0
    /\ created_keywords = 0
    /\ created_negatives = 0
    /\ created_campaigns = 0
    /\ summary = <<>>
    /\ exit_code = <<>>
    /\ all_keywords = <<>>
    /\ target_countries = <<>>
    /\ plan_idx = 0
    /\ all_campaigns = <<>>
    /\ error_panel = ""
    /\ version = FALSE
    /\ invoked_subcommand = ""
    /\ stdout = <<>>
    /\ threshold = 20
    /\ auto_fix = FALSE
    /\ last_scanned = NoAdGroup
    /\ discrepancies = <<>>
    /\ changes_made = 0
    /\ prompts = <<>>
    /\ force = FALSE

Init ==
    /\ cmd \in {"expand", "brand"} \cup ShareCommands
    /\ Fresh
    /\ call = NoCall
    /\ result = <<>>

\* raise typer.Exit(code), or return from the command (code 0)
Exit(code) ==
    /\ pc' = "exit"
    /\ exit_code' = <<code>>

\* print_error(title, ...) or handle_api_error(e) on the way to typer.Exit(1)
Shown(title) == IF exit_code' = <<1>> THEN title ELSE error_panel

(* ---------------------- optimize expand: planning ----------------------- *)
\* _select_campaigns_interactive, without filters: the campaigns offered for selection
\* are those whose name parses
SelectableCampaigns(campaigns) ==
    SelectSeq(campaigns, LAMBDA name : Parse(name) # None)

\* the names of the campaigns campaigns.list() answers with
ListedNames == {<<"Chippy", " ", "-", " ", "US", " ", "-", " ", "Generic", " ", "-", " ", "EM">>,
                <<"Summer", " ", "Sale">>}

\* step 1: the source campaigns, from the arguments or the interactive selection
LoadSources ==
    /\ cmd = "expand" /\ pc = "start"
    /\ UNCHANGED <<flagVars, src_idx, rows_seen, last_row, zero_seen, keyword_impressions,
                   keyword_bids, ad_groups, confirmed, calls, warnings, pollVars, idx,
                   countVars, summary, brandVars>>
    /\ \/ /\ reads' = reads \cup {"campaigns.get"}     \* campaign ids given, every get returned
          /\ \E n_args \in 1..MaxSources : sources' = n_args
          /\ pc' = "fetch_report"
          /\ UNCHANGED <<exit_code, error_panel, all_campaigns>>
       \/ /\ reads' = reads \cup {"campaigns.get"}     \* a campaigns.get raised: Exit(1)
          /\ sources' = sources
          /\ Exit(1)
          /\ error_panel' = "Error"
          /\ UNCHANGED all_campaigns
       \/ /\ reads' = reads \cup {"campaigns.list"}    \* no ids; campaigns.list raised
          /\ sources' = sources
          /\ Exit(1)
          /\ error_panel' = "API Error"
          /\ UNCHANGED all_campaigns
       \/ /\ reads' = reads \cup {"campaigns.list"}    \* no ids; the user selects m of those offered
          /\ \E listed \in SeqsUpTo(ListedNames, MaxSources) :
                \E m \in 0..Len(SelectableCampaigns(listed)) :
                   /\ sources' = m
                   /\ IF m = 0
                      THEN Exit(1)            \* "No campaigns selected"
                      ELSE pc' = "fetch_report" /\ UNCHANGED exit_code
                   /\ all_campaigns' = IF m = 0 THEN listed ELSE <<>>
                   /\ error_panel' = Shown("Error")
    /\ UNCHANGED <<calcVars, cliVars>>

\* the position after the report of source campaign src_idx + 1 is done with
AfterReport == IF src_idx + 1 < sources THEN "fetch_report" ELSE "build_plan"

\* client.reports.keywords(...) for the next source campaign
FetchReport ==
    /\ cmd = "expand" /\ pc = "fetch_report"
    /\ reads' = reads \cup {"reports.keywords"}
    /\ UNCHANGED <<flagVars, sources, rows_seen, last_row, zero_seen, keyword_impressions, keyword_bids,
                   ad_groups, confirmed, calls, pollVars, idx, countVars, summary, exit_code,
                   brandVars>>
    /\ \/ /\ pc' = "rows"                     \* the report came back
          /\ UNCHANGED <<src_idx, warnings>>
       \/ /\ warnings' = Append(warnings, "report")   \* it raised: warn and continue
          /\ src_idx' = src_idx + 1
          /\ pc' = AfterReport
    /\ UNCHANGED <<all_campaigns, error_panel, calcVars, cliVars>>

\* one iteration of `for row in report.row`
ProcessRow ==
    /\ cmd = "expand" /\ pc = "rows"
    /\ rows_seen < MaxRows
    /\ \E row \in Rows :
          LET agg == AggregateRow(keyword_impressions, keyword_bids, row)
          IN  /\ keyword_impressions' = agg.ki
              /\ keyword_bids' = agg.kb
              /\ last_row' = row
              /\ zero_seen' = IF row.keyword # "" /\ row.has_total /\ row.impressions = 0
                               THEN zero_seen \cup {Lower(row.keyword)} ELSE zero_seen
    /\ rows_seen' = rows_seen + 1
    /\ UNCHANGED <<flagVars, pc, sources, src_idx, ad_groups, confirmed, calls, reads, warnings,
                   pollVars, idx, countVars, summary, exit_code, brandVars>>
    /\ UNCHANGED <<all_campaigns, error_panel, calcVars, cliVars>>

\* the rows of the report are exhausted
EndReport ==
    /\ cmd = "expand" /\ pc = "rows"
    /\ last_row' = NoRow
    /\ src_idx' = src_idx + 1
    /\ pc' = AfterReport
    /\ UNCHANGED <<flagVars, sources, rows_seen, zero_seen, keyword_impressions, keyword_bids,
                   ad_groups, confirmed, calls, reads, warnings, pollVars, idx, countVars,
                   summary, exit_code, brandVars>>
    /\ UNCHANGED <<all_campaigns, error_panel, calcVars, cliVars>>

\* the mutant: an empty keyword_bids is planned like any other
NothingToExpandNever(kb) == FALSE

\* if not keyword_bids:
NothingToExpand(kb) == kb = <<>>

\* the filter on active keywords, steps 3 to 5: the plan is built and displayed
BuildPlan ==
    /\ cmd = "expand" /\ pc = "build_plan"
    /\ keyword_bids' = FilterActive(keyword_impressions, keyword_bids)
    /\ IF NothingToExpand(keyword_bids')
       THEN /\ Exit(1)                        \* "No keywords with impressions found"
            /\ UNCHANGED <<ad_groups, skip_negatives>>
       ELSE /\ \E skip \in BOOLEAN :          \* --skip-negatives is read
                  /\ skip_negatives' = skip
                  /\ ad_groups' = BuildAdGroups(keyword_impressions, keyword_bids, skip)
            /\ pc' = "plan_shown"
            /\ UNCHANGED exit_code
    /\ UNCHANGED <<cmd, dry_run, include_china, sources, src_idx, rows_seen, last_row, zero_seen, keyword_impressions,
                   confirmed, calls, reads, warnings, pollVars, idx, countVars, summary,
                   brandVars>>
    /\ error_panel' = Shown("Error")
    /\ UNCHANGED <<all_campaigns, calcVars, cliVars>>

\* the mutant: the answer to the confirmation is not looked at
ProceedsAlways(dry, answer) == "create"

\* if dry_run: return ... if not typer.confirm(...): return
AfterPlan(dry, answer) ==
    IF dry THEN "dry_run" ELSE IF answer THEN "create" ELSE "cancelled"

\* step 6 of expand_campaign: dry run, or the confirmation prompt
ConfirmExpand ==
    /\ cmd = "expand" /\ pc = "plan_shown"
    /\ \E dry \in BOOLEAN, answer \in BOOLEAN :       \* --dry-run is read
          LET next == AfterPlan(dry, answer)
          IN  /\ dry_run' = dry
              /\ confirmed' = IF dry THEN "unasked" ELSE IF answer THEN "yes" ELSE "no"
              /\ IF next = "create"
                 THEN pc' = "create_campaign" /\ UNCHANGED exit_code
                 ELSE Exit(0)
    /\ UNCHANGED <<cmd, skip_negatives, include_china, aggVars, ad_groups, calls, reads, warnings, pollVars, idx,
                   countVars, summary, brandVars>>
    /\ UNCHANGED <<all_campaigns, error_panel, calcVars, cliVars>>

(* -------------------- optimize expand: orchestration -------------------- *)
\* the mutant: every create call sits in a try/except that passes
SwallowedAlways(op) == TRUE

\* the mutant: no create call sits in a try/except
SwallowedNever(op) == FALSE

\* the create calls whose AppleSearchAdsError is caught and passed over
Swallowed(op) == op = "negative_keywords.create_bulk"

\* the mutant: the ad groups are created right after the campaign, without the poll
AfterCampaignNoPoll == "create_ad_group"

\* wait_for_resource(...) follows campaigns.create
AfterCampaign == "poll"

\* the mutant: the negatives call is made for an empty list too
NeedsNegativesAlways(negatives) == TRUE

\* if ag_plan.negatives:
NeedsNegatives(negatives) == negatives # <<>>

\* the mutant: the loop over the ad groups never moves on to the next plan
NextAdGroupRepeat ==
    pc' = "create_ad_group" /\ UNCHANGED idx

\* the end of one iteration of `for i, ag_plan in enumerate(campaign_plan.ad_groups, 1)`
NextAdGroup ==
    IF idx < Len(ad_groups)
    THEN pc' = "create_ad_group" /\ idx' = idx + 1
    ELSE pc' = "summary" /\ UNCHANGED idx

\* client.campaigns.create(CampaignCreate(...))
CreateCampaign ==
    /\ cmd = "expand" /\ pc = "create_campaign"
    /\ \E ok \in BOOLEAN :
          /\ calls' = Append(calls, Call("campaigns.create", 1, 0, ok))
          /\ IF ok
             THEN /\ pc' = AfterCampaign
                  /\ idx' = IF AfterCampaign = "poll" THEN idx ELSE 1
                  /\ attempt' = 0 /\ check_calls' = 0 /\ sleeps' = 0 /\ not_found' = 0
                  /\ poll_result' = "running"
                  /\ UNCHANGED exit_code
             ELSE /\ Exit(1)
                  /\ UNCHANGED <<pollVars, idx>>
    /\ UNCHANGED <<flagVars, aggVars, ad_groups, confirmed, reads, warnings, countVars,
                   summary, brandVars>>
    /\ error_panel' = Shown("API Error")
    /\ UNCHANGED <<all_campaigns, calcVars, cliVars>>

\* one iteration of wait_for_resource(lambda: client.campaigns.get(id), 10, 0.5);
\* a NotFoundError or another API error it raises reaches the command's handler
PollAttempt ==
    /\ pc = "poll"
    /\ reads' = reads \cup {"campaigns.get"}
    /\ check_calls' = check_calls + 1
    /\ \E outcome \in CheckOutcomes :
          LET step == WaitStep(attempt, outcome)
          IN  /\ not_found' = IF outcome = "not_found" THEN not_found + 1 ELSE not_found
              /\ CASE step = "return" ->
                        /\ poll_result' = "returned"
                        /\ pc' = "poll_returned"
                        /\ UNCHANGED <<attempt, sleeps, exit_code>>
                   [] step = "sleep" ->
                        /\ sleeps' = sleeps + 1
                        /\ attempt' = attempt + 1
                        /\ UNCHANGED <<poll_result, pc, exit_code>>
                   [] step = "raise_not_found" ->
                        /\ poll_result' = "not_found"
                        /\ Exit(1)
                        /\ UNCHANGED <<attempt, sleeps>>
                   [] OTHER ->
                        /\ poll_result' = "error"
                        /\ Exit(1)
                        /\ UNCHANGED <<attempt, sleeps>>
    /\ UNCHANGED <<flagVars, aggVars, ad_groups, confirmed, calls, warnings, idx, countVars,
                   summary, brandVars>>
    /\ error_panel' = Shown("API Error")
    /\ UNCHANGED <<all_campaigns, calcVars, cliVars>>

\* wait_for_resource has returned: its frame is gone, the caller starts on the ad groups
PollReturn ==
    /\ pc = "poll_returned"
    /\ pc' = IF cmd = "expand" THEN "create_ad_group" ELSE "brand_ad_group"
    /\ idx' = 1
    /\ attempt' = 0 /\ check_calls' = 0 /\ sleeps' = 0 /\ not_found' = 0
    /\ UNCHANGED <<flagVars, aggVars, ad_groups, confirmed, calls, reads, warnings,
                   poll_result, countVars, summary, exit_code, brandVars>>
    /\ UNCHANGED <<all_campaigns, error_panel, calcVars, cliVars>>

\* client.campaigns(id).ad_groups.create(AdGroupCreate(...)); created_ad_groups += 1
CreateAdGroup ==
    /\ cmd = "expand" /\ pc = "create_ad_group"
    /\ \E ok \in BOOLEAN :
          /\ calls' = Append(calls, Call("ad_groups.create", 1, idx, ok))
          /\ IF ok
             THEN /\ created_ad_groups' = created_ad_groups + 1
                  /\ pc' = "create_keyword"
                  /\ UNCHANGED exit_code
             ELSE /\ Exit(1)
                  /\ UNCHANGED created_ad_groups
    /\ UNCHANGED <<flagVars, aggVars, ad_groups, confirmed, reads, warnings, pollVars, idx,
                   created_keywords, created_negatives, created_campaigns, summary, brandVars>>
    /\ error_panel' = Shown("API Error")
    /\ UNCHANGED <<all_campaigns, calcVars, cliVars>>

\* ...keywords.create_bulk([KeywordCreate(...)]); created_keywords += 1
CreateKeyword ==
    /\ cmd = "expand" /\ pc = "create_keyword"
    /\ \E ok \in BOOLEAN :
          /\ calls' = Append(calls, Call("keywords.create_bulk", 1, idx, ok))
          /\ created_keywords' = IF ok THEN created_keywords + 1 ELSE created_keywords
          /\ IF ok \/ Swallowed("keywords.create_bulk")
             THEN /\ IF NeedsNegatives(ad_groups[idx].negatives)
                     THEN pc' = "create_negatives" /\ UNCHANGED idx
                     ELSE NextAdGroup
                  /\ UNCHANGED exit_code
             ELSE /\ Exit(1)
                  /\ UNCHANGED idx
    /\ UNCHANGED <<flagVars, aggVars, ad_groups, confirmed, reads, warnings, pollVars,
                   created_ad_groups, created_negatives, created_campaigns, summary, brandVars>>
    /\ error_panel' = Shown("API Error")
    /\ UNCHANGED <<all_campaigns, calcVars, cliVars>>

\* ...negative_keywords.create_bulk(neg_keywords); created_negatives += len(result.data):
\* the call answers with the negatives it created, all of those sent
CreateNegatives ==
    /\ cmd = "expand" /\ pc = "create_negatives"
    /\ \E ok \in BOOLEAN :
          /\ calls' = Append(calls, Call("negative_keywords.create_bulk", 1, idx, ok))
          /\ created_negatives' = IF ok THEN created_negatives + Len(ad_groups[idx].negatives)
                                  ELSE created_negatives
          /\ IF ok \/ Swallowed("negative_keywords.create_bulk")
             THEN NextAdGroup /\ UNCHANGED exit_code
             ELSE Exit(1) /\ UNCHANGED idx
    /\ UNCHANGED <<flagVars, aggVars, ad_groups, confirmed, reads, warnings, pollVars,
                   created_ad_groups, created_keywords, created_campaigns, summary, brandVars>>
    /\ error_panel' = Shown("API Error")
    /\ UNCHANGED <<all_campaigns, calcVars, cliVars>>

\* print_result_panel("Campaign Created Successfully", ...) and the return
Summary ==
    /\ cmd = "expand" /\ pc = "summary"
    /\ summary' = <<[ad_groups |-> created_ad_groups, keywords |-> created_keywords,
                     negatives |-> created_negatives]>>
    /\ Exit(0)
    /\ UNCHANGED <<flagVars, aggVars, ad_groups, confirmed, calls, reads, warnings, pollVars,
                   idx, countVars, brandVars>>
    /\ UNCHANGED <<all_campaigns, error_panel, calcVars, cliVars>>

(* ------------------------------- brand ---------------------------------- *)
\* ALL_COUNTRIES flattened, cut to four of its codes; CHINA_COUNTRIES; two presets
AsiaPacific == <<"CN", "JP">>
AllCountryCodes == AsiaPacific \o <<"GB", "US">>
CHINA_COUNTRIES == {"CN"}
PresetTier1 == <<"US", "GB">>
\* "asia": [c for c in ALL_COUNTRIES["asia_pacific"] if c != "CN"]
PresetAsia == SelectSeq(AsiaPacific, LAMBDA c : c # "CN")

\* str.strip() on the strings of the model
Strip(s) == IF s = " " THEN "" ELSE s

SeqToSet(q) == { q[j] : j \in 1..Len(q) }

\* the mutant: China is listed whether or not --include-china was given
GetAllCountriesWithChina(china) == AllCountryCodes

\* get_all_countries(include_china)
GetAllCountries(china) ==
    SelectSeq(AllCountryCodes, LAMBDA code : ~(code = "CN" /\ ~china))

\* all_keywords = [brand_name.lower()] if brand_name else []; then the variants,
\* lower-cased and stripped, each added once
RECURSIVE AddVariants(_, _)
AddVariants(keywords, variants) ==
    IF variants = <<>> THEN keywords
    ELSE LET kw == Strip(Lower(Head(variants)))
         IN  AddVariants(IF kw # "" /\ kw \notin SeqToSet(keywords)
                         THEN Append(keywords, kw) ELSE keywords,
                         Tail(variants))

BrandKeywords(brand_name, variants) ==
    AddVariants(IF brand_name # "" THEN <<Lower(brand_name)>> ELSE <<>>, variants)

\* the --country options: unknown codes and, without --include-china, CN are skipped
RECURSIVE TargetCountries(_, _)
TargetCountries(countries, china) ==
    IF countries = <<>> THEN <<>>
    ELSE LET code_upper == Upper(Head(countries))
             rest == TargetCountries(Tail(countries), china)
         IN  IF code_upper \notin SeqToSet(GetAllCountries(TRUE)) THEN rest
             ELSE IF code_upper \in CHINA_COUNTRIES /\ ~china THEN rest
             ELSE <<code_upper>> \o rest

\* _select_countries_interactive: the typed codes, each valid code kept once
RECURSIVE TypedCountries(_, _, _)
TypedCountries(kept, codes, china) ==
    IF codes = <<>> THEN kept
    ELSE LET code == Upper(Head(codes))
         IN  TypedCountries(
                 IF /\ code \in SeqToSet(GetAllCountries(TRUE))
                    /\ ~(code \in CHINA_COUNTRIES /\ ~china)
                    /\ code \notin SeqToSet(kept)
                 THEN Append(kept, code) ELSE kept,
                 Tail(codes), china)

\* _select_countries_interactive: a preset by number or name, or typed codes
SelectCountries(selection, china) ==
    CASE selection.kind = "all" -> GetAllCountries(china)
      [] selection.kind = "tier1" -> PresetTier1
      [] selection.kind = "asia" -> PresetAsia
      [] OTHER -> TypedCountries(<<>>, selection.codes, china)

\* one print_warning for each code that is unknown or skipped as China
SkippedWarnings(codes, china) ==
    LET skipped == SelectSeq(codes, LAMBDA c :
                       \/ Upper(c) \notin SeqToSet(GetAllCountries(TRUE))
                       \/ (Upper(c) \in CHINA_COUNTRIES /\ ~china))
    IN  [j \in 1..Len(skipped) |->
            IF Upper(skipped[j]) \notin SeqToSet(GetAllCountries(TRUE))
            THEN "Unknown country code" ELSE "requires --include-china"]

\* what the user may give for the countries: options, or an interactive selection
CountrySelections ==
    { [kind |-> "options", codes |-> c] : c \in SeqsUpTo(CountryInputs, MaxCountries) \ {<<>>} }
    \cup { [kind |-> "typed", codes |-> c] : c \in SeqsUpTo(CountryInputs, MaxCountries) }
    \cup { [kind |-> "all", codes |-> <<>>], [kind |-> "tier1", codes |-> <<>>],
           [kind |-> "asia", codes |-> <<>>] }

\* steps 1 and 2 of create_brand_campaigns: the brand keywords and the target countries
BrandCollect ==
    /\ cmd = "brand" /\ pc = "start"
    /\ \E brand_name \in BrandInputs \cup {""},
          variants \in SeqsUpTo(BrandInputs \cup {" "}, 1),
          selection \in CountrySelections,
          china \in BOOLEAN :                 \* --include-china is read
          \* without a name and variants the keywords are prompted for: a name is typed
          /\ brand_name # "" \/ variants # <<>>
          /\ all_keywords' = BrandKeywords(brand_name, variants)
          /\ IF all_keywords' = <<>>
             THEN /\ Exit(1)                  \* "At least one brand keyword is required"
                  /\ error_panel' = "No keywords"
                  /\ UNCHANGED <<target_countries, warnings, include_china>>
             ELSE /\ include_china' = china
                  /\ target_countries' =
                        IF selection.kind = "options"
                        THEN TargetCountries(selection.codes, china)
                        ELSE SelectCountries(selection, china)
                  /\ warnings' = warnings \o SkippedWarnings(selection.codes, china)
                  /\ IF target_countries' = <<>>
                     THEN Exit(1)             \* "No valid target countries selected"
                     ELSE pc' = "brand_ref" /\ UNCHANGED exit_code
                  /\ error_panel' = Shown("No countries")
    /\ UNCHANGED <<cmd, dry_run, skip_negatives, aggVars, ad_groups, confirmed, calls, reads,
                   pollVars, idx, countVars, summary, plan_idx>>
    /\ UNCHANGED <<all_campaigns, calcVars, cliVars>>

\* step 3: the reference campaign and its ad groups, or the interactive app selection
BrandReference ==
    /\ cmd = "brand" /\ pc = "brand_ref"
    /\ \E reference_campaign \in BOOLEAN :
          /\ reads' = reads \cup (IF reference_campaign
                                  THEN {"campaigns.get", "ad_groups.list"}
                                  ELSE {"campaigns.list"})
          /\ \/ /\ pc' = "plan_shown"         \* steps 4 to 6: the plans are shown
                /\ UNCHANGED <<exit_code, error_panel>>
             \/ /\ Exit(1)                    \* an API error
                /\ error_panel' = "API Error"
             \/ /\ ~reference_campaign        \* no app to select, or an invalid selection
                /\ Exit(1)
                /\ error_panel' = "No apps"
             \/ /\ reference_campaign         \* adam_id is None: print_error and return
                /\ Exit(0)
                /\ error_panel' = "No app selected"
    /\ UNCHANGED <<flagVars, aggVars, ad_groups, confirmed, calls, warnings, pollVars, idx,
                   countVars, summary, brandVars>>
    /\ UNCHANGED <<all_campaigns, calcVars, cliVars>>

\* if dry_run: return ... step 7: if not typer.confirm(...): return
ConfirmBrand ==
    /\ cmd = "brand" /\ pc = "plan_shown"
    /\ \E dry \in BOOLEAN, answer \in BOOLEAN :       \* --dry-run is read
          LET next == AfterPlan(dry, answer)
          IN  /\ dry_run' = dry
              /\ confirmed' = IF dry THEN "unasked" ELSE IF answer THEN "yes" ELSE "no"
              /\ IF next = "create"
                 THEN pc' = "brand_campaign" /\ plan_idx' = 1 /\ UNCHANGED exit_code
                 ELSE Exit(0) /\ UNCHANGED plan_idx
    /\ UNCHANGED <<cmd, skip_negatives, include_china, aggVars, ad_groups, calls, reads, warnings, pollVars, idx,
                   countVars, summary, all_keywords, target_countries>>
    /\ UNCHANGED <<all_campaigns, error_panel, calcVars, cliVars>>

\* step 8, per plan: client.campaigns.create(...); created_campaigns += 1; then the poll
BrandCreateCampaign ==
    /\ cmd = "brand" /\ pc = "brand_campaign"
    /\ \E ok \in BOOLEAN :
          /\ calls' = Append(calls, Call("campaigns.create", plan_idx, 0, ok))
          /\ IF ok
             THEN /\ created_campaigns' = created_campaigns + 1
                  /\ pc' = "poll"
                  /\ attempt' = 0 /\ check_calls' = 0 /\ sleeps' = 0 /\ not_found' = 0
                  /\ poll_result' = "running"
                  /\ UNCHANGED exit_code
             ELSE /\ Exit(1)
                  /\ UNCHANGED <<pollVars, created_campaigns>>
    /\ UNCHANGED <<flagVars, aggVars, ad_groups, confirmed, reads, warnings, idx,
                   created_ad_groups, created_keywords, created_negatives, summary, brandVars>>
    /\ error_panel' = Shown("API Error")
    /\ UNCHANGED <<all_campaigns, calcVars, cliVars>>

\* per keyword: ...ad_groups.create(AdGroupCreate(...)); created_ad_groups += 1
BrandCreateAdGroup ==
    /\ cmd = "brand" /\ pc = "brand_ad_group"
    /\ \E ok \in BOOLEAN :
          /\ calls' = Append(calls, Call("ad_groups.create", plan_idx, idx, ok))
          /\ IF ok
             THEN /\ created_ad_groups' = created_ad_groups + 1
                  /\ pc' = "brand_keyword"
                  /\ UNCHANGED exit_code
             ELSE /\ Exit(1)
                  /\ UNCHANGED created_ad_groups
    /\ UNCHANGED <<flagVars, aggVars, ad_groups, confirmed, reads, warnings, pollVars, idx,
                   created_keywords, created_negatives, created_campaigns, summary, brandVars>>
    /\ error_panel' = Shown("API Error")
    /\ UNCHANGED <<all_campaigns, calcVars, cliVars>>

\* the mutant: the loop over the plans is the inner one
AfterBrandKeywordPlansFirst(keyword_idx, plan, keywords, plans) ==
    IF plan < plans THEN "next_plan"
    ELSE IF keyword_idx < keywords THEN "next_keyword"
    ELSE "summary"

\* for plan in campaign_plans: ... for keyword in plan.keywords: where the loops go on
AfterBrandKeyword(keyword_idx, plan, keywords, plans) ==
    IF keyword_idx < keywords THEN "next_keyword"
    ELSE IF plan < plans THEN "next_plan"
    ELSE "summary"

\* per keyword: ...keywords.create_bulk([KeywordCreate(...)]); created_keywords += 1
BrandCreateKeyword ==
    /\ cmd = "brand" /\ pc = "brand_keyword"
    /\ \E ok \in BOOLEAN :
          /\ calls' = Append(calls, Call("keywords.create_bulk", plan_idx, idx, ok))
          /\ IF ok
             THEN /\ created_keywords' = created_keywords + 1
                  /\ UNCHANGED exit_code
                  /\ LET next == AfterBrandKeyword(idx, plan_idx, Len(all_keywords),
                                                   Len(target_countries))
                     IN  CASE next = "next_keyword" ->
                                pc' = "brand_ad_group" /\ idx' = idx + 1 /\ UNCHANGED plan_idx
                           [] next = "next_plan" ->
                                pc' = "brand_campaign" /\ plan_idx' = plan_idx + 1
                                   /\ UNCHANGED idx
                           [] OTHER ->
                                pc' = "brand_summary" /\ UNCHANGED <<idx, plan_idx>>
             ELSE /\ Exit(1)
                  /\ UNCHANGED <<created_keywords, idx, plan_idx>>
    /\ UNCHANGED <<flagVars, aggVars, ad_groups, confirmed, reads, warnings, pollVars,
                   created_ad_groups, created_negatives, created_campaigns, summary,
                   all_keywords, target_countries>>
    /\ error_panel' = Shown("API Error")
    /\ UNCHANGED <<all_campaigns, calcVars, cliVars>>

\* print_result_panel("Brand Campaigns Created", ...) and the return
BrandSummary ==
    /\ cmd = "brand" /\ pc = "brand_summary"
    /\ summary' = <<[campaigns |-> created_campaigns, ad_groups |-> created_ad_groups,
                     keywords |-> created_keywords]>>
    /\ Exit(0)
    /\ UNCHANGED <<flagVars, aggVars, ad_groups, confirmed, calls, reads, warnings, pollVars,
                   idx, countVars, brandVars>>
    /\ UNCHANGED <<all_campaigns, error_panel, calcVars, cliVars>>

(* --------------------------- impression-share --------------------------- *)
\* client = get_client(): a ConfigurationError is printed and ends the command
ShareGetClient ==
    /\ cmd \in ShareCommands /\ pc = "start"
    /\ \/ pc' = "share_report" /\ UNCHANGED <<exit_code, error_panel>>
       \/ Exit(1) /\ error_panel' = "Configuration Error"
    /\ UNCHANGED <<flagVars, aggVars, ad_groups, confirmed, calls, reads, warnings, pollVars,
                   idx, countVars, summary, brandVars, all_campaigns, calcVars, cliVars>>

\* report = client.custom_reports.get_impression_share(...);
\* except Exception as e: handle_api_error(e); return
ShareFetchReport ==
    /\ cmd \in ShareCommands /\ pc = "share_report"
    /\ reads' = reads \cup {"custom_reports.get_impression_share"}
    /\ \/ pc' = "share_rows" /\ UNCHANGED <<exit_code, error_panel>>
       \/ error_panel' = "API Error" /\ Exit(0)
    /\ UNCHANGED <<flagVars, aggVars, ad_groups, confirmed, calls, warnings, pollVars,
                   idx, countVars, summary, brandVars, all_campaigns, calcVars, cliVars>>

\* if not report.row: print_warning(...); return; else the data is exported or shown
ShareDisplay ==
    /\ cmd \in ShareCommands /\ pc = "share_rows"
    /\ \E has_rows \in BOOLEAN :
          warnings' = IF has_rows THEN warnings ELSE Append(warnings, "no data")
    /\ Exit(0)
    /\ UNCHANGED <<flagVars, aggVars, ad_groups, confirmed, calls, reads, pollVars,
                   idx, countVars, summary, brandVars, all_campaigns, error_panel, calcVars, cliVars>>

(* --------------------------- specification ----------------------------- *)
Next ==
    \/ LoadSources
    \/ FetchReport
    \/ ProcessRow
    \/ EndReport
    \/ BuildPlan
    \/ ConfirmExpand
    \/ CreateCampaign
    \/ PollAttempt
    \/ PollReturn
    \/ CreateAdGroup
    \/ CreateKeyword
    \/ CreateNegatives
    \/ Summary
    \/ BrandCollect
    \/ BrandReference
    \/ ConfirmBrand
    \/ BrandCreateCampaign
    \/ BrandCreateAdGroup
    \/ BrandCreateKeyword
    \/ BrandSummary
    \/ ShareGetClient
    \/ ShareFetchReport
    \/ ShareDisplay

Spec == Init /\ [][Next]_vars

\* `optimize expand` on its own
ExpandInit == Init /\ cmd = "expand"

ExpandNext ==
    \/ LoadSources
    \/ FetchReport
    \/ ProcessRow
    \/ EndReport
    \/ BuildPlan
    \/ ConfirmExpand
    \/ CreateCampaign
    \/ PollAttempt
    \/ PollReturn
    \/ CreateAdGroup
    \/ CreateKeyword
    \/ CreateNegatives
    \/ Summary

\* steps 8 to 10 of expand_campaign, from campaigns.create to the summary
Orchestrate ==
    \/ CreateCampaign
    \/ PollAttempt
    \/ PollReturn
    \/ CreateAdGroup
    \/ CreateKeyword
    \/ CreateNegatives
    \/ Summary

\* the command is one sequential process: once the plan is confirmed, each call
\* returns or raises and the next statement is run
ExpandFairSpec == ExpandInit /\ [][ExpandNext]_vars /\ WF_vars(Orchestrate)

(* ------------------- functions called on their own ---------------------- *)
\* the bids of a report, in cents
BidAmounts == {1, 2, 100, 101, 250}

\* step 3 of expand_campaign for one keyword with the bids collected for it
KeywordPlanCalls ==
    { [fn |-> "keyword_plan", text |-> "todo", impressions |-> 2, bids |-> b] :
          b \in SeqsUpTo(BidAmounts, MaxBids) \ {<<>>} }

CallKeywordPlan ==
    /\ call.fn = "keyword_plan" /\ result = <<>>
    /\ LET kp == KeywordPlanOf(<<[k |-> call.text, v |-> call.impressions]>>,
                               [k |-> call.text, v |-> call.bids])
       IN  result' = <<[plan |-> kp,
                        default_bid_amount |-> DefaultBidAmount(kp),
                        bid_amount |-> KeywordBidAmount(kp)]>>
    /\ UNCHANGED <<flagVars, pc, aggVars, ad_groups, confirmed, calls, reads, warnings,
                   pollVars, idx, countVars, summary, exit_code, brandVars, all_campaigns,
                   error_panel, call, cliVars>>

\* keyword texts of every length, lower-cased as the aggregation keys are: one word,
\* or words of four letters
TextOf(n, words) ==
    [j \in 1..n |-> IF words /\ j % 5 = 0 THEN " " ELSE IF j % 2 = 0 THEN "o" ELSE "t"]

AdGroupNameCalls ==
    { [fn |-> "ad_group_name", text |-> TextOf(n, w)] : n \in 1..MaxTextLen, w \in BOOLEAN }

\* the name of the AdGroupPlan of one keyword plan
CallAdGroupName ==
    /\ call.fn = "ad_group_name" /\ result = <<>>
    /\ result' = <<AdGroupName(call.text)>>
    /\ UNCHANGED <<flagVars, pc, aggVars, ad_groups, confirmed, calls, reads, warnings,
                   pollVars, idx, countVars, summary, exit_code, brandVars, all_campaigns,
                   error_panel, call, cliVars>>

\* report rows of a source campaign: keyword, impressions, and a bid of 1.00 or none
SourceRow(k, n, has_bid) ==
    [keyword |-> k, has_total |-> TRUE, impressions |-> n, has_bid |-> has_bid,
     bid |-> IF has_bid THEN 100 ELSE 0]

SampleRows ==
    {SourceRow("todo", 2, TRUE), SourceRow("Todo", 2, TRUE), SourceRow("plan", 2, FALSE),
     SourceRow("plan", 0, TRUE)}

\* the keyword reports of the source campaigns, one per campaign
ReportsCalls ==
    { [fn |-> "keyword_plans", reports |-> r] :
          r \in SeqsUpTo(SeqsUpTo(SampleRows, 2), MaxSources) \ {<<>>} }

\* for row in report.row: ... on the pair of dictionaries
RECURSIVE AggregateRows(_, _)
AggregateRows(agg, rows) ==
    IF rows = <<>> THEN agg
    ELSE AggregateRows(AggregateRow(agg.ki, agg.kb, Head(rows)), Tail(rows))

\* for campaign in source_campaign_data: the report of each is aggregated in turn
RECURSIVE AggregateReports(_, _)
AggregateReports(agg, reports) ==
    IF reports = <<>> THEN agg
    ELSE AggregateReports(AggregateRows(agg, Head(reports)), Tail(reports))

\* steps 2 and 3 of expand_campaign: from the reports to the keyword plans
CallKeywordPlans ==
    /\ call.fn = "keyword_plans" /\ result = <<>>
    /\ LET agg == AggregateReports([ki |-> <<>>, kb |-> <<>>], call.reports)
       IN  result' = <<KeywordPlans(agg.ki, FilterActive(agg.ki, agg.kb))>>
    /\ UNCHANGED <<flagVars, pc, aggVars, ad_groups, confirmed, calls, reads, warnings,
                   pollVars, idx, countVars, summary, exit_code, brandVars, all_campaigns,
                   error_panel, call, cliVars>>

\* --budget, and the daily budgets of the source campaigns, in cents
BudgetOptions == {None, Some(0), Some(5000)}
SourceBudgets == {None, Some(0), Some(1000), Some(1001), Some(2500)}

PlanBudgetCalls ==
    { [fn |-> "plan_budget", daily_budget |-> d, source_budgets |-> b] :
          d \in BudgetOptions, b \in SeqsUpTo(SourceBudgets, MaxSources) \ {<<>>} }

\* step 4 of expand_campaign: the daily budget of the CampaignPlan
CallPlanBudget ==
    /\ call.fn = "plan_budget" /\ result = <<>>
    /\ result' = <<PlanBudget(call.daily_budget, call.source_budgets)>>
    /\ UNCHANGED <<flagVars, pc, aggVars, ad_groups, confirmed, calls, reads, warnings,
                   pollVars, idx, countVars, summary, exit_code, brandVars, all_campaigns,
                   error_panel, call, cliVars>>

\* " - ".join(parts)
RECURSIVE Join(_)
Join(parts) ==
    IF parts = <<>> THEN <<>>
    ELSE IF Len(parts) = 1 THEN parts[1]
    ELSE parts[1] \o Sep \o Join(Tail(parts))

\* the parts campaign names are made of: any part but the last, and the last
HeadParts == {<<>>, <<"Chippy">>, <<"us">>, <<"Generic", " ">>}
LastParts == {<<"EM">>, <<"em">>, <<"Exact", " ", "Match">>, <<"BM">>,
              <<"broad", " ", "match">>, <<" ", "SM">>, <<"Search", " ", "Match", " ">>,
              <<"Exact", "-", "Match">>, <<"Generic">>, <<>>}

\* campaign names of 1 to MaxParts parts, each with the parts it was made of
CampaignNames ==
    { [name |-> Join(Append(h, l)), parts |-> Append(h, l)] :
          h \in SeqsUpTo(HeadParts, MaxParts - 1), l \in LastParts }

ParseCalls ==
    { [fn |-> "parse", name |-> n.name, parts |-> n.parts] : n \in CampaignNames }

\* CampaignNameParts.parse(name)
CallParse ==
    /\ call.fn = "parse" /\ result = <<>>
    /\ result' = <<Parse(call.name)>>
    /\ UNCHANGED <<flagVars, pc, aggVars, ad_groups, confirmed, calls, reads, warnings,
                   pollVars, idx, countVars, summary, exit_code, brandVars, all_campaigns,
                   error_panel, call, cliVars>>

\* the new country handed to with_country
NewCountries == {<<"CA">>, <<"de">>, <<" ", "CA">>, <<"CA", " ", "-", " ", "QC">>}

WithCountryCalls ==
    { [fn |-> "with_country", name |-> n.name, parts |-> n.parts, new_country |-> c] :
          n \in CampaignNames, c \in NewCountries }

\* a name is parsed, rebuilt by with_country, and the new name is parsed
CallWithCountry ==
    /\ call.fn = "with_country" /\ result = <<>>
    /\ LET parsed == Parse(call.name)
       IN  result' =
              IF parsed = None
              THEN <<[parsed |-> None, new_name |-> <<>>, reparsed |-> None]>>
              ELSE LET new_name == WithCountry(parsed[1], call.new_country)
                   IN  <<[parsed |-> parsed, new_name |-> new_name,
                          reparsed |-> Parse(new_name)]>>
    /\ UNCHANGED <<flagVars, pc, aggVars, ad_groups, confirmed, calls, reads, warnings,
                   pollVars, idx, countVars, summary, exit_code, brandVars, all_campaigns,
                   error_panel, call, cliVars>>

Calls ==
    KeywordPlanCalls \cup AdGroupNameCalls \cup PlanBudgetCalls \cup ParseCalls
        \cup WithCountryCalls \cup ReportsCalls

CalcInit ==
    /\ cmd = "none"
    /\ Fresh
    /\ call \in Calls
    /\ result = <<>>

CalcNext ==
    \/ CallKeywordPlan
    \/ CallAdGroupName
    \/ CallPlanBudget
    \/ CallParse
    \/ CallWithCountry
    \/ CallKeywordPlans

CalcSpec == CalcInit /\ [][CalcNext]_vars

(* ---------------------- the root command and its tools ------------------ *)
\* the name the version line starts with
ProgramName == "asa-api-cli"

\* __version__ = "0.1.0"
CliVersion == "0.1.0"

\* console.print(f"{name} {cli_version} ({api name} {api_version})")
VersionLine == <<ProgramName, " ", CliVersion, " ", "(", "api_version", ")">>

\* app.add_typer(...): sub-commands a command line may name
Subcommands == {"campaigns", "optimize"}

\* the mutant: the version is printed and the command line is run as usual
VersionCallbackNoExit(value) == "main"

\* def version_callback(value): if value: console.print(...); raise typer.Exit()
VersionCallback(value) == IF value THEN "exit" ELSE "main"

\* the eager --version option of the root command, handled before anything else
RootVersion ==
    /\ cmd = "asa" /\ pc = "start"
    /\ \E value \in BOOLEAN, sub \in Subcommands \cup {""} :
          /\ version' = value
          /\ invoked_subcommand' = sub
          /\ stdout' = IF value THEN Append(stdout, VersionLine) ELSE stdout
          /\ IF VersionCallback(value) = "exit"
             THEN Exit(0)
             ELSE pc' = "main" /\ UNCHANGED exit_code
    /\ UNCHANGED <<flagVars, aggVars, ad_groups, confirmed, calls, reads, warnings, pollVars,
                   idx, countVars, summary, brandVars, all_campaigns, error_panel, calcVars,
                   bidVars, force>>

\* def main(ctx, version): if ctx.invoked_subcommand is None and not version: help, Exit()
RootMain ==
    /\ cmd = "asa" /\ pc = "main"
    /\ IF invoked_subcommand = "" /\ ~version
       THEN stdout' = Append(stdout, <<"help">>) /\ Exit(0)
       ELSE IF invoked_subcommand = ""
            THEN Exit(0) /\ UNCHANGED stdout
            ELSE pc' = "subcommand" /\ UNCHANGED <<stdout, exit_code>>
    /\ UNCHANGED <<flagVars, aggVars, ad_groups, confirmed, calls, reads, warnings, pollVars,
                   idx, countVars, summary, brandVars, all_campaigns, error_panel, calcVars,
                   version, invoked_subcommand, bidVars, force>>

\* the sub-command named on the command line runs and prints
RootSubcommand ==
    /\ cmd = "asa" /\ pc = "subcommand"
    /\ stdout' = Append(stdout, <<invoked_subcommand>>)
    /\ \E code \in {0, 1} : Exit(code)
    /\ UNCHANGED <<flagVars, aggVars, ad_groups, confirmed, calls, reads, warnings, pollVars,
                   idx, countVars, summary, brandVars, all_campaigns, error_panel, calcVars,
                   version, invoked_subcommand, bidVars, force>>

(* ----------------------------- bid-check -------------------------------- *)
\* --threshold values given on the command line (a float option; 20.0 by default)
Thresholds == {-50, 20}
\* ag.default_bid_amount.amount, in cents
AdGroupBids == {0, 100}
\* kw.bid_amount of a keyword: None, or an amount in cents
KeywordBidOptions == {None, Some(61), Some(120)}

\* an enabled ad group of an enabled campaign as the scan meets it: its default bid
\* and what keywords.list() answers (listed is FALSE when it raises)
ScannedAdGroups(id) ==
    { [id |-> id, default_bid |-> b, listed |-> TRUE, keywords |-> kws] :
          b \in AdGroupBids, kws \in SeqsUpTo(KeywordBidOptions, MaxKeywords) }
    \cup
    { [id |-> id, default_bid |-> b, listed |-> FALSE, keywords |-> <<>>] : b \in AdGroupBids }

RECURSIVE MinSeq(_)
MinSeq(s) ==
    IF Len(s) = 1 THEN s[1]
    ELSE LET m == MinSeq(Tail(s)) IN IF Head(s) < m THEN Head(s) ELSE m

RECURSIVE MaxSeq(_)
MaxSeq(s) ==
    IF Len(s) = 1 THEN s[1]
    ELSE LET m == MaxSeq(Tail(s)) IN IF Head(s) > m THEN Head(s) ELSE m

\* BidDiscrepancy(...); keyword_avg_bid = sum(kw_bids) / len(kw_bids) is kept
\* as the fraction keyword_sum / keyword_count
BidDiscrepancy(ag, kw_bids) ==
    [ad_group_id |-> ag.id,
     ad_group_bid |-> ag.default_bid,
     keyword_sum |-> SumSeq(kw_bids),
     keyword_count |-> Len(kw_bids),
     keyword_min_bid |-> MinSeq(kw_bids),
     keyword_max_bid |-> MaxSeq(kw_bids)]

\* (keyword_avg - ad_group_bid) / ad_group_bid * 100 as a fraction with den > 0
DifferencePct(ad_group_bid, keyword_sum, keyword_count) ==
    IF ad_group_bid = 0 THEN [num |-> 0, den |-> 1]
    ELSE [num |-> (keyword_sum - keyword_count * ad_group_bid) * 100,
          den |-> keyword_count * ad_group_bid]

\* BidDiscrepancy.difference_pct
difference_pct(d) == DifferencePct(d.ad_group_bid, d.keyword_sum, d.keyword_count)

\* a >= b for fractions with positive denominators
FracGE(a, b) == a.num * b.den >= b.num * a.den

\* the body of `for ag in ad_groups:`: the conditions under which the ad group is appended
IsDiscrepancy(ag, t) ==
    LET kw_bids == Values(ag.keywords)
    IN  /\ ag.listed /\ ag.keywords # <<>> /\ kw_bids # <<>>
        /\ ag.default_bid > 0
        /\ FracGE(DifferencePct(ag.default_bid, SumSeq(kw_bids), Len(kw_bids)),
                  [num |-> t, den |-> 1])

\* list.sort(key=difference_pct, reverse=True): stable, equal keys keep their order
RECURSIVE InsertByDifference(_, _)
InsertByDifference(sorted, d) ==
    IF sorted = <<>> THEN <<d>>
    ELSE IF FracGE(difference_pct(Head(sorted)), difference_pct(d))
         THEN <<Head(sorted)>> \o InsertByDifference(Tail(sorted), d)
         ELSE <<d>> \o sorted

RECURSIVE SortByDifference(_)
SortByDifference(ds) ==
    IF ds = <<>> THEN <<>>
    ELSE InsertByDifference(SortByDifference(SubSeq(ds, 1, Len(ds) - 1)), ds[Len(ds)])

\* client = get_client(); campaigns = list(client.campaigns.find(...))
BidCheckStart ==
    /\ cmd = "bid-check" /\ pc = "start"
    /\ \E t \in Thresholds : threshold' = t
    /\ reads' = reads \cup {"campaigns.find"}
    /\ \E ok \in BOOLEAN :
          IF ok THEN pc' = "scan" /\ UNCHANGED exit_code ELSE Exit(1)
    /\ error_panel' = Shown("API Error")
    /\ UNCHANGED <<flagVars, aggVars, ad_groups, confirmed, calls, warnings, pollVars,
                   idx, countVars, summary, brandVars, all_campaigns, calcVars, rootVars, force,
                   auto_fix, last_scanned, discrepancies, changes_made, prompts>>

\* for ag in ad_groups: keywords.list(), the statistics, the append
ScanAdGroup ==
    /\ cmd = "bid-check" /\ pc = "scan"
    /\ last_scanned.id < MaxScanned
    /\ \E ag \in ScannedAdGroups(last_scanned.id + 1) :
          /\ last_scanned' = ag
          /\ discrepancies' = IF IsDiscrepancy(ag, threshold)
                              THEN Append(discrepancies, BidDiscrepancy(ag, Values(ag.keywords)))
                              ELSE discrepancies
    /\ reads' = reads \cup {"ad_groups.find", "keywords.list"}
    /\ UNCHANGED <<flagVars, pc, aggVars, ad_groups, confirmed, calls, warnings, pollVars,
                   idx, countVars, summary, exit_code, brandVars, all_campaigns, error_panel,
                   calcVars, rootVars, force, threshold, auto_fix, changes_made, prompts>>

\* if not discrepancies: return; discrepancies.sort(...); the table; if dry_run: return
EndScan ==
    /\ cmd = "bid-check" /\ pc = "scan"
    /\ last_scanned' = NoAdGroup
    /\ IF discrepancies = <<>>
       THEN /\ Exit(0)
            /\ UNCHANGED <<discrepancies, dry_run, auto_fix, idx>>
       ELSE /\ discrepancies' = SortByDifference(discrepancies)
            /\ \E dry \in BOOLEAN, fix \in BOOLEAN :       \* --dry-run, --auto-fix are read
                  /\ dry_run' = dry
                  /\ auto_fix' = fix
                  /\ IF dry
                     THEN Exit(0) /\ UNCHANGED idx
                     ELSE pc' = "fix" /\ idx' = 1 /\ UNCHANGED exit_code
    /\ UNCHANGED <<cmd, skip_negatives, include_china, aggVars, ad_groups, confirmed, calls,
                   reads, warnings, pollVars, countVars, summary, brandVars, all_campaigns,
                   error_panel, calcVars, rootVars, force, threshold, changes_made, prompts>>

\* what may be typed at the "Action" prompt
TypedActions == {"apply", "a", "custom", "skip", "QUIT", "x"}
\* what may be typed at the "Enter new bid" prompt
TypedBids == {"1.50", "abc"}

\* Decimal(new_bid_str), in cents: None when it raises
ParseBid(new_bid_str) == IF new_bid_str = "1.50" THEN Some(150) ELSE None

\* suggested_bid = round(d.keyword_avg_bid, 2), in cents: Decimal rounds half to even
SuggestedBid(d) ==
    LET q == d.keyword_sum \div d.keyword_count
        twice == 2 * (d.keyword_sum % d.keyword_count)
    IN  IF twice < d.keyword_count THEN q
        ELSE IF twice > d.keyword_count THEN q + 1
        ELSE IF q % 2 = 0 THEN q ELSE q + 1

\* the mutant: every answer but skip and quit applies the suggestion
DecideAnyApplies(action, new_bid_str, suggested_bid) ==
    IF action \in {"quit", "q"} THEN [next |-> "break", new_bid |-> None]
    ELSE IF action \in {"skip", "s"} THEN [next |-> "continue", new_bid |-> None]
    ELSE [next |-> "update", new_bid |-> Some(suggested_bid)]

\* the if / elif chain on the answer: what the iteration does next and the new bid
Decide(action, new_bid_str, suggested_bid) ==
    IF action \in {"quit", "q"} THEN [next |-> "break", new_bid |-> None]
    ELSE IF action \in {"skip", "s"} THEN [next |-> "continue", new_bid |-> None]
    ELSE IF action \in {"custom", "c"}
         THEN IF ParseBid(new_bid_str) = None
              THEN [next |-> "continue", new_bid |-> None]
              ELSE [next |-> "update", new_bid |-> ParseBid(new_bid_str)]
    ELSE IF action \in {"apply", "a"} THEN [next |-> "update", new_bid |-> Some(suggested_bid)]
    ELSE [next |-> "continue", new_bid |-> None]

\* client.campaigns(d.campaign_id).ad_groups.update(d.ad_group_id, ... amount=str(new_bid))
UpdateCall(ad_group_id, amount, ok) ==
    [op |-> "ad_groups.update", i |-> ad_group_id, amount |-> amount, ok |-> ok]

\* the end of one iteration of `for i, d in enumerate(discrepancies, 1):`
NextDiscrepancy ==
    IF idx < Len(discrepancies)
    THEN idx' = idx + 1 /\ UNCHANGED pc
    ELSE pc' = "bid_summary" /\ UNCHANGED idx

\* one iteration of the loop with --auto-fix: the suggestion is applied unasked
AutoFix ==
    /\ cmd = "bid-check" /\ pc = "fix" /\ auto_fix
    /\ \E ok \in BOOLEAN :
          /\ calls' = Append(calls, UpdateCall(discrepancies[idx].ad_group_id,
                                               SuggestedBid(discrepancies[idx]), ok))
          /\ IF ok
             THEN /\ changes_made' = changes_made + 1
                  /\ NextDiscrepancy
                  /\ UNCHANGED exit_code
             ELSE /\ Exit(1)
                  /\ UNCHANGED <<changes_made, idx>>
    /\ error_panel' = Shown("API Error")
    /\ UNCHANGED <<flagVars, aggVars, ad_groups, confirmed, reads, warnings, pollVars,
                   countVars, summary, brandVars, all_campaigns, calcVars, rootVars, force,
                   threshold, auto_fix, last_scanned, discrepancies, prompts>>

\* one iteration of the loop without --auto-fix: the prompt, then what the answer asks for
PromptFix ==
    /\ cmd = "bid-check" /\ pc = "fix" /\ ~auto_fix
    /\ \E typed \in TypedActions, new_bid_str \in TypedBids, ok \in BOOLEAN :
          LET action == Lower(typed)
              choice == Decide(action, new_bid_str, SuggestedBid(discrepancies[idx]))
          IN  /\ prompts' = Append(prompts, [i |-> idx, action |-> action,
                                              new_bid_str |-> IF action \in {"custom", "c"}
                                                              THEN new_bid_str ELSE ""])
              /\ CASE choice.next = "break" ->
                        /\ pc' = "bid_summary"
                        /\ UNCHANGED <<calls, changes_made, idx, exit_code, warnings>>
                   [] choice.next = "continue" ->
                        /\ NextDiscrepancy
                        /\ warnings' = IF action \in {"skip", "s"} THEN warnings
                                       ELSE Append(warnings, "skipping")
                        /\ UNCHANGED <<calls, changes_made, exit_code>>
                   [] OTHER ->
                        /\ calls' = Append(calls, UpdateCall(discrepancies[idx].ad_group_id,
                                                             choice.new_bid[1], ok))
                        /\ IF ok
                           THEN /\ changes_made' = changes_made + 1
                                /\ NextDiscrepancy
                                /\ UNCHANGED exit_code
                           ELSE /\ Exit(1)
                                /\ UNCHANGED <<changes_made, idx>>
                        /\ UNCHANGED warnings
    /\ error_panel' = Shown("API Error")
    /\ UNCHANGED <<flagVars, aggVars, ad_groups, confirmed, reads, pollVars,
                   countVars, summary, brandVars, all_campaigns, calcVars, rootVars, force,
                   threshold, auto_fix, last_scanned, discrepancies>>

\* if changes_made > 0: print_result_panel(...) else: print_info("No changes made")
BidSummary ==
    /\ cmd = "bid-check" /\ pc = "bid_summary"
    /\ summary' = IF changes_made > 0
                  THEN <<[found |-> Len(discrepancies), changes |-> changes_made]>>
                  ELSE summary
    /\ Exit(0)
    /\ UNCHANGED <<flagVars, aggVars, ad_groups, confirmed, calls, reads, warnings, pollVars,
                   idx, countVars, brandVars, all_campaigns, error_panel, calcVars, cliVars>>

(* ------------------------------ delete --------------------------------- *)
DeleteCommands ==
    {"campaigns delete", "ad-groups delete", "keywords delete", "keywords negatives delete"}

\* the call that reads the resource named in the confirmation, "" when there is none
FetchOp(command) ==
    CASE command = "campaigns delete" -> "campaigns.get"
      [] command = "ad-groups delete" -> "ad_groups.get"
      [] command = "keywords delete" -> "keywords.get"
      [] OTHER -> ""

\* the call that deletes
DeleteOp(command) ==
    CASE command = "campaigns delete" -> "campaigns.delete"
      [] command = "ad-groups delete" -> "ad_groups.delete"
      [] command = "keywords delete" -> "keywords.delete"
      [] OTHER -> "negative_keywords.delete"

\* client = get_client(); the resource is fetched for the confirmation message
DeleteFetch ==
    /\ cmd \in DeleteCommands /\ pc = "start"
    /\ \E outcome \in {"ok", "configuration_error", "api_error"} :
          /\ outcome = "api_error" => FetchOp(cmd) # ""
          /\ reads' = IF outcome = "configuration_error" \/ FetchOp(cmd) = ""
                      THEN reads ELSE reads \cup {FetchOp(cmd)}
          /\ IF outcome = "ok"
             THEN pc' = "delete_confirm" /\ UNCHANGED <<exit_code, error_panel>>
             ELSE /\ Exit(1)
                  /\ error_panel' = IF outcome = "api_error" THEN "API Error"
                                    ELSE "Configuration Error"
    /\ UNCHANGED <<flagVars, aggVars, ad_groups, confirmed, calls, warnings, pollVars,
                   idx, countVars, summary, brandVars, all_campaigns, calcVars, cliVars>>

\* the mutant: the answer to the confirmation is not looked at
AfterDeleteConfirmAlways(forced, answer) == "delete"

\* if not force: if not confirm_action(...): print_warning("Cancelled"); raise typer.Exit(0)
AfterDeleteConfirm(forced, answer) ==
    IF forced THEN "delete" ELSE IF answer THEN "delete" ELSE "cancelled"

\* --force is read; without it the user is asked
DeleteConfirm ==
    /\ cmd \in DeleteCommands /\ pc = "delete_confirm"
    /\ \E forced \in BOOLEAN, answer \in BOOLEAN :
          /\ force' = forced
          /\ confirmed' = IF forced THEN "unasked" ELSE IF answer THEN "yes" ELSE "no"
          /\ IF AfterDeleteConfirm(forced, answer) = "delete"
             THEN pc' = "delete" /\ UNCHANGED <<exit_code, warnings>>
             ELSE Exit(0) /\ warnings' = Append(warnings, "Cancelled")
    /\ UNCHANGED <<flagVars, aggVars, ad_groups, calls, reads, pollVars, idx, countVars,
                   summary, brandVars, all_campaigns, error_panel, calcVars, rootVars, bidVars>>

\* client....delete(id); print_success(...)
DeleteCall ==
    /\ cmd \in DeleteCommands /\ pc = "delete"
    /\ \E ok \in BOOLEAN :
          /\ calls' = Append(calls, Call(DeleteOp(cmd), 0, 0, ok))
          /\ Exit(IF ok THEN 0 ELSE 1)
    /\ error_panel' = Shown("API Error")
    /\ UNCHANGED <<flagVars, aggVars, ad_groups, confirmed, reads, warnings, pollVars,
                   idx, countVars, summary, brandVars, all_campaigns, calcVars, cliVars>>

CliCommands == {"asa", "bid-check"} \cup DeleteCommands

CliInit ==
    /\ cmd \in CliCommands
    /\ Fresh
    /\ call = NoCall
    /\ result = <<>>

CliNext ==
    \/ RootVersion
    \/ RootMain
    \/ RootSubcommand
    \/ BidCheckStart
    \/ ScanAdGroup
    \/ EndScan
    \/ AutoFix
    \/ PromptFix
    \/ BidSummary
    \/ DeleteFetch
    \/ DeleteConfirm
    \/ DeleteCall

CliSpec == CliInit /\ [][CliNext]_vars

(* ------------------------------ properties ----------------------------- *)
CriticalOps == {"campaigns.create", "ad_groups.create", "keywords.create_bulk"}
ReadOps == {"campaigns.get", "campaigns.list", "reports.keywords", "ad_groups.list",
            "custom_reports.get_impression_share"}

IsPrefix(p, q) == Len(p) <= Len(q) /\ \A j \in 1..Len(p) : p[j] = q[j]

\* the calls of a log without their outcome
CallKeys(log) == [j \in 1..Len(log) |-> <<log[j].op, log[j].i>>]

\* the calls the plan asks for, ad group by ad group in plan order
RECURSIVE ExpectedFrom(_)
ExpectedFrom(i) ==
    IF i > Len(ad_groups) THEN <<>>
    ELSE <<<<"ad_groups.create", i>>, <<"keywords.create_bulk", i>>>>
         \o (IF ad_groups[i].negatives # <<>>
             THEN <<<<"negative_keywords.create_bulk", i>>>> ELSE <<>>)
         \o ExpectedFrom(i + 1)

FailedNegatives == { j \in 1..Len(calls) :
                        calls[j].op = "negative_keywords.create_bulk" /\ ~calls[j].ok }

FailedCritical == { j \in 1..Len(calls) : calls[j].op \in CriticalOps /\ ~calls[j].ok }

\* the negatives sent by the negative_keywords.create_bulk calls that returned
RECURSIVE NegativesOfReturnedCalls(_)
NegativesOfReturnedCalls(log) ==
    IF log = <<>> THEN 0
    ELSE (IF Head(log).op = "negative_keywords.create_bulk" /\ Head(log).ok
          THEN Len(ad_groups[Head(log).i].negatives) ELSE 0)
         + NegativesOfReturnedCalls(Tail(log))

PlannedTexts == { ad_groups[j].keyword.text : j \in 1..Len(ad_groups) }

\* C1: in `optimize expand` the mutating calls follow the plan: campaigns.create comes
\* first and only after the confirmation; no ad_groups.create is issued unless the
\* poll's campaigns.get has returned; the ad group calls are, in plan order,
\* ad_groups.create, keywords.create_bulk and (for a non-empty negatives list only)
\* negative_keywords.create_bulk, so ad group i+1 starts after ad group i is finished.
C1_CallsFollowPlan ==
    cmd = "expand" =>
        /\ calls # <<>> =>
              /\ CallKeys(calls)[1] = <<"campaigns.create", 0>>
              /\ confirmed = "yes"
        /\ \A j \in 1..Len(calls) :
              calls[j].op = "ad_groups.create" =>
                  poll_result = "returned" /\ "campaigns.get" \in reads
        /\ calls # <<>> => IsPrefix(CallKeys(Tail(calls)), ExpectedFrom(1))

\* C1 witness: a confirmed plan of three ad groups with negatives was run to its end
C1_Witness ==
    /\ cmd = "expand" /\ pc = "exit" /\ summary # <<>>
    /\ Len(ad_groups) = 3 /\ ~skip_negatives
    /\ Len(calls) = 10

\* C2: with max_attempts = 10, a poll that returns has called check_fn exactly once
\* more than check_fn raised NotFoundError (k < 10 failures, k + 1 calls); a poll that
\* raises NotFoundError has called it exactly 10 times; there is never an 11th call.
C2_PollCallCount ==
    /\ check_calls <= MAX_ATTEMPTS
    /\ pc = "poll_returned" =>
          /\ poll_result = "returned"
          /\ not_found < MAX_ATTEMPTS
          /\ check_calls = not_found + 1
    /\ poll_result = "not_found" =>
          /\ check_calls = MAX_ATTEMPTS
          /\ not_found = MAX_ATTEMPTS

\* C2 witness: check_fn raised NotFoundError nine times and then returned
C2_Witness ==
    pc = "poll_returned" /\ not_found = MAX_ATTEMPTS - 1 /\ check_calls = MAX_ATTEMPTS

\* C3: only NotFoundError is retried: a sleep follows each NotFoundError that is not
\* the last attempt and nothing else; another error on attempt j ends the poll at
\* once, after j calls and j - 1 sleeps, and the command exits with code 1.
C3_OnlyNotFoundRetried ==
    /\ pc \in {"poll", "poll_returned"} => sleeps = not_found /\ attempt = not_found
    /\ poll_result = "error" =>
          /\ check_calls = not_found + 1
          /\ sleeps = not_found
          /\ pc = "exit" /\ exit_code = <<1>>

\* C3 witness: another error on the third attempt, after two NotFoundErrors
C3_Witness ==
    poll_result = "error" /\ not_found = 2 /\ check_calls = 3 /\ sleeps = 2

\* C4: in `optimize expand` a failed campaigns.create, poll, ad_groups.create or
\* keywords.create_bulk is the end: the failed call is the last call issued, the
\* command exits with code 1 without a summary, only create calls were ever issued
\* (nothing is deleted or updated), and the counters of created ad groups and
\* keywords are those of the calls that returned.
C4_CriticalFailureAborts ==
    cmd = "expand" =>
        /\ \A j \in FailedCritical :
              /\ j = Len(calls)
              /\ pc = "exit" /\ exit_code = <<1>> /\ summary = <<>>
        /\ poll_result \in {"not_found", "error"} =>
              /\ Len(calls) = 1
              /\ pc = "exit" /\ exit_code = <<1>> /\ summary = <<>>
        /\ \A j \in 1..Len(calls) : calls[j].op \in CreateOps
        /\ created_ad_groups =
              Cardinality({ j \in 1..Len(calls) : calls[j].op = "ad_groups.create" /\ calls[j].ok })
        /\ created_keywords =
              Cardinality({ j \in 1..Len(calls) : calls[j].op = "keywords.create_bulk" /\ calls[j].ok })

\* C4 witness: keywords.create_bulk failed for the second ad group, after the first
\* ad group was created with its keyword and negatives
C4_Witness ==
    /\ cmd = "expand" /\ pc = "exit" /\ exit_code = <<1>>
    /\ Len(calls) = 6
    /\ calls[6] = Call("keywords.create_bulk", 1, 2, FALSE)
    /\ created_ad_groups = 2 /\ created_keywords = 1

\* C5: in `optimize expand` a failed negative_keywords.create_bulk for ad group i is
\* passed over: the next call is ad_groups.create for ad group i+1 (or the summary
\* follows when i is the last), the command can still exit with code 0, and the
\* summary counts all n ad groups and keywords and only the negatives of the
\* negative_keywords.create_bulk calls that returned.
C5_NegativesFailureSkipped ==
    cmd = "expand" =>
        /\ \A j \in FailedNegatives :
              IF j < Len(calls)
              THEN CallKeys(calls)[j + 1] = <<"ad_groups.create", calls[j].i + 1>>
              ELSE /\ exit_code # <<1>>
                   /\ IF calls[j].i < Len(ad_groups)
                      THEN pc = "create_ad_group" /\ idx = calls[j].i + 1
                      ELSE pc = "summary" \/ (pc = "exit" /\ summary # <<>>)
        /\ summary # <<>> =>
              /\ exit_code = <<0>>
              /\ summary[1].ad_groups = Len(ad_groups)
              /\ summary[1].keywords = Len(ad_groups)
              /\ summary[1].negatives = NegativesOfReturnedCalls(calls)

\* C5 witness: the negatives of the first of three ad groups failed, those of the
\* other two were created, and the summary was printed
C5_Witness ==
    /\ cmd = "expand" /\ summary # <<>> /\ Len(ad_groups) = 3
    /\ FailedNegatives = {4}
    /\ summary[1].negatives = 4

\* C6: in `optimize expand` each failed negative_keywords.create_bulk is reported by a
\* warning: there are as many negatives warnings as failed negatives calls.
C6_NegativesFailureWarned ==
    cmd = "expand" =>
        Cardinality({ j \in 1..Len(warnings) : warnings[j] = "negatives" })
            = Cardinality(FailedNegatives)

\* C7: with --dry-run, or when the confirmation is declined, `optimize expand` and
\* `brand` end after the plan is shown, with code 0, and no mutating call is ever
\* issued: the calls made are read calls only.
C7_NoMutationWithoutConfirmation ==
    /\ reads \subseteq ReadOps
    /\ (dry_run \/ confirmed = "no") =>
          /\ calls = <<>>
          /\ pc = "exit" /\ exit_code = <<0>> /\ summary = <<>>
    /\ calls # <<>> => ~dry_run /\ confirmed = "yes"

\* C7 witness: a brand run with --dry-run ended after its reads
C7_Witness ==
    /\ cmd = "brand" /\ dry_run /\ pc = "exit"
    /\ target_countries # <<>> /\ reads # {}

\* C8: cross-negative closure of an expand plan with n ad groups: with negatives
\* enabled each negatives list leaves out the ad group's own keyword and holds
\* exactly the other n-1 keyword texts, n*(n-1) in all; with --skip-negatives every
\* list is empty.
C8_CrossNegativeClosure ==
    LET n == Len(ad_groups)
        lengths == [j \in 1..n |-> Len(ad_groups[j].negatives)]
    IN  cmd = "expand" =>
            IF skip_negatives
            THEN /\ \A j \in 1..n : ad_groups[j].negatives = <<>>
                 /\ SumSeq(lengths) = 0
            ELSE /\ \A j \in 1..n :
                       /\ ad_groups[j].keyword.text \notin SeqToSet(ad_groups[j].negatives)
                       /\ SeqToSet(ad_groups[j].negatives)
                              = PlannedTexts \ {ad_groups[j].keyword.text}
                       /\ lengths[j] = n - 1
                 /\ SumSeq(lengths) = n * (n - 1)

\* C8 witness: a plan of three ad groups with negatives enabled, six negatives in all
C8_Witness ==
    /\ cmd = "expand" /\ pc = "plan_shown" /\ ~skip_negatives
    /\ Len(ad_groups) = 3
    /\ Len(ad_groups[1].negatives) + Len(ad_groups[2].negatives)
           + Len(ad_groups[3].negatives) = 6

\* C9: every report row with a keyword and positive impressions has its bid appended
\* to the bid list of its lower-cased keyword, so every keyword with a positive
\* impression total has a non-empty bid list and, once the plan is built, an ad group.
C9_CountedRowsHaveBids ==
    cmd = "expand" =>
        /\ RowCounts(last_row) =>
              LET bids == DictGet(keyword_bids, Lower(last_row.keyword), <<>>)
              IN  /\ last_row.has_bid
                  /\ bids # <<>>
                  /\ bids[Len(bids)] = last_row.bid
        /\ \A k \in DictKeys(keyword_impressions) :
              DictGet(keyword_impressions, k, 0) > 0 =>
                  /\ DictGet(keyword_bids, k, <<>>) # <<>>
                  /\ ad_groups # <<>> => k \in PlannedTexts

\* C10: every keyword plan kept in an expand plan has impressions > 0, and so has
\* every cross-negative: a keyword met only in rows with zero impressions is no ad
\* group keyword and no negative of the plan.
C10_PlannedKeywordsHaveImpressions ==
    cmd = "expand" =>
        /\ \A j \in 1..Len(ad_groups) :
              /\ ad_groups[j].keyword.impressions > 0
              /\ ad_groups[j].keyword.impressions
                     = DictGet(keyword_impressions, ad_groups[j].keyword.text, 0)
              /\ \A neg \in SeqToSet(ad_groups[j].negatives) :
                     DictGet(keyword_impressions, neg, 0) > 0
        /\ \A k \in zero_seen :
              ~DictHas(keyword_impressions, k) =>
                  /\ k \notin PlannedTexts
                  /\ \A j \in 1..Len(ad_groups) : k \notin SeqToSet(ad_groups[j].negatives)

\* C10 witness: a plan of two ad groups was built although a third keyword was met,
\* with zero impressions only
C10_Witness ==
    /\ cmd = "expand" /\ pc = "plan_shown" /\ ~skip_negatives
    /\ Len(ad_groups) = 2
    /\ \E k \in zero_seen : ~DictHas(keyword_impressions, k)

\* C11: when no keyword of the reports read has positive impressions (also when
\* every report call failed), optimize expand prints an error, exits with code 1,
\* builds no plan and issues no creation call.
C11_NothingToExpand ==
    (/\ cmd = "expand"
     /\ pc \notin {"start", "fetch_report", "rows", "build_plan"}
     /\ sources > 0
     /\ \A k \in DictKeys(keyword_impressions) : DictGet(keyword_impressions, k, 0) <= 0)
    => /\ exit_code = <<1>>
       /\ error_panel = "Error"
       /\ ad_groups = <<>>
       /\ calls = <<>>
       /\ summary = <<>>

\* C11 witness: both report calls failed, and the command has left with the error
C11_Witness ==
    /\ cmd = "expand" /\ pc = "exit" /\ sources = 2 /\ src_idx = 2
    /\ warnings = <<"report", "report">>
    /\ keyword_impressions = <<>>
    /\ exit_code = <<1>> /\ error_panel = "Error"

\* the permutations of a list
PermutationsOf(q) ==
    { [j \in 1..Len(q) |-> q[f[j]]] : f \in Permutations(1..Len(q)) }

\* C12: for every non-empty list of source bids the planned bid is sum/len rounded
\* to 2 decimal places (no other amount in cents is nearer to the mean), the same
\* for every permutation of the list; the ad group's default bid and the keyword's
\* bid are that bid.
C12_BidIsRoundedMean ==
    (call.fn = "keyword_plan" /\ result # <<>>) =>
        LET bid == result[1].plan.bid
            n == Len(call.bids)
            total == SumSeq(call.bids)
            off == IF n * bid >= total THEN n * bid - total ELSE total - n * bid
        IN  /\ 2 * off <= n
            /\ \A q \in PermutationsOf(call.bids) : RoundedMean(q) = bid
            /\ \A q \in PermutationsOf(call.bids) :
                  KeywordPlanOf(<<[k |-> call.text, v |-> call.impressions]>>,
                                [k |-> call.text, v |-> q]).bid = bid
            /\ result[1].default_bid_amount = bid
            /\ result[1].bid_amount = bid

\* C12 witness: three bids whose mean, 1.0033.., is no amount in cents; the bid is 1.00
C12_Witness ==
    /\ call.fn = "keyword_plan" /\ call.bids = <<100, 101, 100>>
    /\ result # <<>> /\ result[1].plan.bid = 100

\* C13: the ad-group name is "Exact - " and the title-cased keyword; longer than 200
\* characters it is its first 197 characters and "...", 200 characters in all; of
\* 200 characters or fewer it is unchanged; no name is longer than 200 characters.
C13_AdGroupNameTruncated ==
    (call.fn = "ad_group_name" /\ result # <<>>) =>
        LET name == result[1]
            n == Len(call.text)
            full(j) == IF j <= 8 THEN ExactPrefix[j]
                       ELSE IF j = 9 \/ call.text[j - 9] = " "
                            THEN UpperChar(call.text[j - 8])
                            ELSE call.text[j - 8]
        IN  /\ Len(name) <= 200
            /\ 8 + n <= 200 => /\ Len(name) = 8 + n
                               /\ \A j \in 1..(8 + n) : name[j] = full(j)
            /\ 8 + n > 200 => /\ Len(name) = 200
                              /\ \A j \in 1..197 : name[j] = full(j)
                              /\ \A j \in 198..200 : name[j] = "."

\* C13 witness: a keyword of 193 characters, whose name of 201 is cut to 200
C13_Witness ==
    /\ call.fn = "ad_group_name" /\ Len(call.text) = 193
    /\ result # <<>> /\ Len(result[1]) = 200 /\ result[1][200] = "."

\* C14: the daily budget of an expand plan is the --budget value when given, 0
\* included; otherwise the arithmetic mean of the daily budgets of the source
\* campaigns that have one; otherwise, when none has one, 100.
C14_BudgetResolution ==
    (call.fn = "plan_budget" /\ result # <<>>) =>
        LET budget == result[1]
            having == { j \in 1..Len(call.source_budgets) : call.source_budgets[j] # None }
            total == SumSeq([j \in 1..Len(call.source_budgets) |->
                                IF j \in having THEN call.source_budgets[j][1] ELSE 0])
        IN  /\ budget.den > 0
            /\ call.daily_budget # None => budget.num = call.daily_budget[1] * budget.den
            /\ (call.daily_budget = None /\ having # {}) =>
                  budget.num * Cardinality(having) = total * budget.den
            /\ (call.daily_budget = None /\ having = {}) =>
                  budget.num = 100 * 100 * budget.den

\* C14 witness: without --budget, the mean is taken over the one source campaign of
\* two that has a daily budget
C14_Witness ==
    /\ call.fn = "plan_budget" /\ result # <<>>
    /\ call.daily_budget = None /\ call.source_budgets = <<None, Some(2500)>>
    /\ result[1] = [num |-> 2500, den |-> 1]

\* the match type each last part of the model's names stands for, "" for none
ExpectedMatchType(last) ==
    CASE last \in {<<"EM">>, <<"em">>, <<"Exact", " ", "Match">>} -> "EM"
      [] last \in {<<"BM">>, <<"broad", " ", "match">>, <<" ", "SM">>,
                   <<"Search", " ", "Match", " ">>} -> "BM"
      [] OTHER -> ""

\* C15: parse returns None exactly when the name has fewer than 4 " - "-separated
\* parts or its last part, trimmed and upper-cased, is none of EM, EXACT MATCH, BM,
\* BROAD MATCH, SM, SEARCH MATCH; otherwise match_type is EM for EM / EXACT MATCH and
\* BM for the other four.
C15_ParseNullExactly ==
    (call.fn = "parse" /\ result # <<>>) =>
        LET k == Len(call.parts)
            expected == ExpectedMatchType(call.parts[k])
        IN  /\ result[1] = None <=> (k < 4 \/ expected = "")
            /\ result[1] # None => result[1][1].match_type = expected

\* C15 witness: a name of four parts ending in " SM" parses, with match type BM
C15_Witness ==
    /\ call.fn = "parse" /\ Len(call.parts) = 4 /\ call.parts[4] = <<" ", "SM">>
    /\ result # <<>> /\ result[1] # None /\ result[1][1].match_type = "BM"

\* a part but the last as parse keeps it: without the blanks around it (it has none inside)
Trimmed(part) == SelectSeq(part, LAMBDA t : t # " ")

\* C16: a name of k >= 4 parts that parses gives app_name = part 1, country = part 2
\* upper-cased, campaign_type = part k-1 and the match type of part k; for k > 4 the
\* parts 3..k-2 are dropped, and with_country rebuilds a name of 4 parts without them.
C16_MiddlePartsDropped ==
    (call.fn = "with_country" /\ result # <<>> /\ result[1].parsed # None) =>
        LET k == Len(call.parts)
            p == result[1].parsed[1]
            rebuilt == Split(result[1].new_name)
        IN  /\ k >= 4
            /\ p.app_name = Trimmed(call.parts[1])
            /\ p.country = UpperTokens(Trimmed(call.parts[2]))
            /\ p.campaign_type = Trimmed(call.parts[k - 1])
            /\ p.match_type = ExpectedMatchType(call.parts[k])
            /\ call.new_country = <<"CA">> =>
                  /\ Len(rebuilt) = 4
                  /\ rebuilt = <<p.app_name, <<"CA">>, p.campaign_type,
                                 IF p.match_type = "EM" THEN <<"Exact", " ", "Match">>
                                 ELSE <<"Broad", " ", "Match">> >>

\* C16 witness: a name of five parts parsed; its third part, "us", is in none of the
\* four parts of the rebuilt name
C16_Witness ==
    /\ call.fn = "with_country" /\ call.new_country = <<"CA">>
    /\ call.parts = << <<"Chippy">>, <<>>, <<"us">>, <<"Generic", " ">>, <<"em">> >>
    /\ result # <<>> /\ result[1].parsed # None
    /\ result[1].new_name = <<"Chippy", " ", "-", " ", "CA", " ", "-", " ", "Generic",
                              " ", "-", " ", "Exact", " ", "Match">>

\* the new name has the form "{app_name} - {c} - {campaign_type} - {long match type}"
LongFormName(r, c) ==
    LET p == r.parsed[1]
    IN  r.new_name = p.app_name \o <<" ", "-", " ">> \o c \o <<" ", "-", " ">>
                       \o p.campaign_type \o <<" ", "-", " ">>
                       \o (IF p.match_type = "EM" THEN <<"Exact", " ", "Match">>
                           ELSE <<"Broad", " ", "Match">>)

\* a country code as expand hands it on: one word in upper case
IsCountryCode(c) == Len(c) = 1 /\ c[1] \notin {" ", "-"} /\ Upper(c[1]) = c[1]

C18_NullNeverAborts ==
    (/\ cmd = "expand" /\ pc = "exit" /\ exit_code = <<1>>
     /\ reads = {"campaigns.list"} /\ error_panel = "Error"
     /\ all_campaigns # <<>>)
    => \E j \in 1..Len(all_campaigns) : Parse(all_campaigns[j]) # None

\* C19: a command that handled an API, validation or configuration error raised by
\* the API client exits with code 1, and a command exits with code 0 only when it
\* succeeded; so for impression-share analyze, report and summary when the
\* impression-share report call fails.
C19_HandledErrorExitsOne ==
    pc = "exit" =>
        /\ error_panel \in {"API Error", "Configuration Error"} => exit_code = <<1>>
        /\ exit_code = <<0>> => error_panel \notin {"API Error", "Configuration Error"}

\* the indices of the ad groups in the order their ad_groups.create calls were issued
CreatedOrder ==
    LET creates == SelectSeq(calls, LAMBDA c : c.op = "ad_groups.create")
    IN  [j \in 1..Len(creates) |-> creates[j].i]

\* C20: the ad groups of an expand plan are ordered by non-increasing keyword
\* impressions (the most active keyword first), and ad_groups.create is called for
\* them in exactly that order: the j-th ad group created is the j-th of the plan.
C20_MostActiveFirst ==
    cmd = "expand" /\ ad_groups # <<>> =>
        /\ \A i \in 1..(Len(ad_groups) - 1) :
              ad_groups[i].keyword.impressions >= ad_groups[i + 1].keyword.impressions
        /\ calls # <<>> =>
              LET created == CreatedOrder
              IN  /\ Len(created) <= Len(ad_groups)
                  /\ created = [j \in 1..Len(created) |-> j]

\* C20 witness: the sort moved a more active keyword ahead of the first keyword of the
\* dictionary, and both ad groups were created
C20_Witness ==
    /\ cmd = "expand" /\ Len(ad_groups) >= 2
    /\ ad_groups[1].keyword.impressions > ad_groups[2].keyword.impressions
    /\ keyword_bids[1].k = ad_groups[2].keyword.text
    /\ Len(CreatedOrder) = 2

\* the tokens of the lines printed
Printed == UNION { { stdout[j][k] : k \in 1..Len(stdout[j]) } : j \in 1..Len(stdout) }

LastFlagged ==
    /\ discrepancies # <<>>
    /\ discrepancies[Len(discrepancies)].ad_group_id = last_scanned.id

\* the bids of the keywords of the last scanned ad group that have one
LastBids == Values(last_scanned.keywords)

\* C22: bid-check flags a scanned (enabled) ad group if and only if it has at least
\* one keyword with a bid, its default bid is > 0, and
\* (mean keyword bid - ad group bid) / ad group bid * 100 >= threshold; an ad group
\* whose keyword average is below the ad group bid, or whose default bid is 0, is
\* never flagged; the flagged list is processed in non-increasing difference_pct.
C22_FlaggedIffAboveThreshold ==
    cmd = "bid-check" =>
        /\ (pc = "scan" /\ last_scanned.id > 0) =>
              /\ LastFlagged <=>
                    /\ LastBids # <<>>
                    /\ last_scanned.default_bid > 0
                    /\ 100 * (SumSeq(LastBids) - Len(LastBids) * last_scanned.default_bid)
                           >= threshold * Len(LastBids) * last_scanned.default_bid
              /\ last_scanned.default_bid = 0 => ~LastFlagged
              /\ (LastBids # <<>> /\ SumSeq(LastBids) < Len(LastBids) * last_scanned.default_bid)
                    => ~LastFlagged
        /\ pc \in {"fix", "bid_summary"} =>
              \A j \in 1..(Len(discrepancies) - 1) :
                  FracGE(difference_pct(discrepancies[j]), difference_pct(discrepancies[j + 1]))

\* the answers that ask for an update: apply, or custom with a bid that parses
Accepting == { j \in 1..Len(prompts) :
                 \/ prompts[j].action \in {"apply", "a"}
                 \/ prompts[j].action \in {"custom", "c"} /\ prompts[j].new_bid_str = "1.50" }

\* a is the fraction total / n rounded to a whole number of cents, half to even
IsRoundedToCents(a, total, n) ==
    /\ 2 * (n * a - total) <= n /\ 2 * (total - n * a) <= n
    /\ (2 * (n * a - total) = n \/ 2 * (total - n * a) = n) => a % 2 = 0

\* C23: bid-check issues an ad-group bid update only for a flagged discrepancy that
\* was accepted. With --dry-run no update is ever issued. With --auto-fix (and no
\* --dry-run) nothing is prompted and the updates issued are, in the order of the
\* list, one per discrepancy with the keyword average rounded to 2 decimals: all of
\* them when the command ends with code 0. Without --auto-fix the updates are exactly
\* those of the answers `apply` and `custom` with a value that parses (none for skip,
\* an unknown action or an invalid value), a `quit` is the last answer asked for, and
\* the "Changes made" reported is the number of update calls that succeeded.
C23_UpdatesOnlyAccepted ==
    cmd = "bid-check" =>
        /\ dry_run => calls = <<>>
        /\ \A j \in 1..Len(calls) :
              /\ calls[j].op = "ad_groups.update"
              /\ \E k \in 1..Len(discrepancies) : discrepancies[k].ad_group_id = calls[j].i
        /\ auto_fix =>
              /\ prompts = <<>>
              /\ Len(calls) <= Len(discrepancies)
              /\ \A j \in 1..Len(calls) :
                    /\ calls[j].i = discrepancies[j].ad_group_id
                    /\ IsRoundedToCents(calls[j].amount, discrepancies[j].keyword_sum,
                                        discrepancies[j].keyword_count)
              /\ (~dry_run /\ pc = "exit" /\ exit_code = <<0>>) =>
                    Len(calls) = Len(discrepancies)
        /\ ~auto_fix =>
              /\ Cardinality(Accepting) = Len(calls)
              /\ \A j \in Accepting :
                    LET n == Cardinality({ k \in Accepting : k <= j })
                        d == discrepancies[prompts[j].i]
                    IN  /\ calls[n].i = d.ad_group_id
                        /\ IF prompts[j].action \in {"apply", "a"}
                           THEN IsRoundedToCents(calls[n].amount, d.keyword_sum, d.keyword_count)
                           ELSE calls[n].amount = 150
              /\ \A j \in 1..Len(prompts) :
                    /\ prompts[j].i = j
                    /\ prompts[j].action \in {"quit", "q"} =>
                          j = Len(prompts) /\ pc \in {"bid_summary", "exit"}
        /\ changes_made = Cardinality({ j \in 1..Len(calls) : calls[j].ok })
        /\ summary # <<>> => summary[1].changes = changes_made

\* C23 witness: a custom bid was applied to the first discrepancy, `quit` was typed at
\* the second, and the summary reports one change
C23_Witness ==
    /\ cmd = "bid-check" /\ pc = "exit" /\ ~auto_fix
    /\ Len(discrepancies) = 2 /\ Len(prompts) = 2
    /\ prompts[1].action = "custom" /\ prompts[2].action = "quit"
    /\ Len(calls) = 1 /\ calls[1].amount = 150
    /\ summary # <<>> /\ summary[1].changes = 1

\* C24: in campaigns delete, ad-groups delete, keywords delete and keywords negatives
\* delete the delete call is issued only if --force was given or the user accepted
\* the confirmation prompt; when the user declines, no delete call is issued and the
\* command exits with code 0.
C24_DeleteOnlyConfirmed ==
    cmd \in DeleteCommands =>
        /\ \A j \in 1..Len(calls) : calls[j].op = DeleteOp(cmd)
        /\ calls # <<>> => force \/ confirmed = "yes"
        /\ confirmed = "no" => calls = <<>> /\ pc = "exit" /\ exit_code = <<0>>

\* C24 witness: the user declined the deletion of a negative keyword
C24_Witness ==
    /\ cmd = "keywords negatives delete" /\ ~force /\ confirmed = "no"
    /\ pc = "exit" /\ warnings = <<"Cancelled">>

\* the calls the brand plans ask for: per country the campaign, then per keyword the
\* ad group and its keyword
RECURSIVE BrandExpectedFrom(_, _)
BrandExpectedFrom(plan, i) ==
    IF plan > Len(target_countries) THEN <<>>
    ELSE IF i = 0
         THEN <<<<"campaigns.create", plan, 0>>>> \o BrandExpectedFrom(plan, 1)
    ELSE IF i > Len(all_keywords) THEN BrandExpectedFrom(plan + 1, 0)
    ELSE <<<<"ad_groups.create", plan, i>>, <<"keywords.create_bulk", plan, i>>>>
         \o BrandExpectedFrom(plan, i + 1)

\* C25: brand creates the campaigns one target country at a time in list order: the
\* campaign, the poll until it is visible, then per brand keyword one ad group
\* followed by one keyword in it; the next country's campaign comes only after all
\* ad groups and keywords of the current one; at the end the totals are |countries|
\* campaigns and |countries| * |keywords| ad groups and keywords. A call that fails
\* is the last call: the command exits with code 1 and nothing is rolled back.
C25_BrandCountryByCountry ==
    (cmd = "brand" /\ calls # <<>>) =>
        /\ IsPrefix([j \in 1..Len(calls) |-> <<calls[j].op, calls[j].c, calls[j].i>>],
                    BrandExpectedFrom(1, 0))
        /\ pc \in {"brand_ad_group", "brand_keyword"} => poll_result = "returned"
        /\ \A j \in 1..Len(calls) :
              ~calls[j].ok => j = Len(calls) /\ pc = "exit" /\ exit_code = <<1>>
        /\ summary # <<>> =>
              /\ exit_code = <<0>>
              /\ summary[1].campaigns = Len(target_countries)
              /\ summary[1].ad_groups = Len(target_countries) * Len(all_keywords)
              /\ summary[1].keywords = Len(target_countries) * Len(all_keywords)
              /\ Len(calls) = Len(BrandExpectedFrom(1, 0))

\* C25 witness: two countries with two brand keywords each were created to the end
C25_Witness ==
    /\ cmd = "brand" /\ pc = "exit" /\ summary # <<>>
    /\ Len(target_countries) = 2 /\ Len(all_keywords) = 2
    /\ Len(calls) = 10

\* the source campaigns in whose report the keyword appeared with positive impressions
SourcesOf(text, reports) ==
    { c \in 1..Len(reports) :
         \E j \in 1..Len(reports[c]) :
            /\ Lower(reports[c][j].keyword) = text
            /\ reports[c][j].has_total /\ reports[c][j].impressions > 0 }

\* C26: for every KeywordPlan built by optimize expand, source_count equals the number
\* of distinct source campaigns in whose report the keyword appeared with positive
\* impressions, and is at most the number of selected source campaigns.
C26_SourceCountIsCampaigns ==
    (call.fn = "keyword_plans" /\ result # <<>>) =>
        \A j \in 1..Len(result[1]) :
            /\ result[1][j].source_count
                  = Cardinality(SourcesOf(result[1][j].text, call.reports))
            /\ result[1][j].source_count <= Len(call.reports)

\* the campaigns.create calls of the brand command, by the country of their plan
CreatedCountries ==
    { target_countries[calls[j].c] : j \in { k \in 1..Len(calls) : calls[k].op = "campaigns.create" } }

\* C27: in brand without --include-china the code CN never is among the target
\* countries and no campaign is created for it, whichever way the countries were
\* chosen (--country options, a preset, or typed codes, in either letter case);
\* codes that are not in ALL_COUNTRIES are never targeted either.
C27_NoChinaUnlessIncluded ==
    cmd = "brand" =>
        /\ ~include_china => "CN" \notin SeqToSet(target_countries) \cup CreatedCountries
        /\ SeqToSet(target_countries) \cup CreatedCountries \subseteq {"CN", "JP", "GB", "US"}

\* C27 witness: CN was asked for without --include-china and skipped with a warning,
\* and the campaigns of the other countries were created
C27_Witness ==
    /\ cmd = "brand" /\ ~include_china /\ pc = "exit" /\ summary # <<>>
    /\ "requires --include-china" \in SeqToSet(warnings)
    /\ CreatedCountries = {"US"}

\* C28: in one brand invocation no two campaign plans target the same country, so no
\* two campaigns with the same generated name "{app} - {country} - Brand - EM" are
\* created, however the countries were supplied (also the same code twice, or in
\* different letter case, through --country).
C28_NoDuplicateCountry ==
    cmd = "brand" =>
        /\ \A i, j \in 1..Len(target_countries) :
              i # j => target_countries[i] # target_countries[j]
        /\ \A i, j \in 1..Len(calls) :
              (i # j /\ calls[i].op = "campaigns.create" /\ calls[j].op = "campaigns.create")
                  => target_countries[calls[i].c] # target_countries[calls[j].c]

\* C29: every money amount that expand sends to the API has at most 2 decimal
\* places, that is, is a whole number of cents: the bid of every keyword plan (the
\* default bid of its ad group and the bid of its keyword), and the daily budget of
\* the campaign, also when it is the mean of the source campaigns' budgets.
C29_MoneyTwoDecimals ==
    /\ (call.fn = "keyword_plans" /\ result # <<>>) =>
          \A j \in 1..Len(result[1]) : result[1][j].bid \in Nat
    /\ (call.fn = "plan_budget" /\ result # <<>>) => result[1].den = 1

\* the campaigns.create calls issued so far
CampaignCreates == { j \in 1..Len(calls) : calls[j].op = "campaigns.create" }

\* C30: once the plan of n ad groups is confirmed, `optimize expand` ends whatever
\* the API answers: it reaches Done (summary printed, exit code 0) or Aborted (exit
\* code 1); campaigns.create is issued at most once; the poll calls campaigns.get at
\* most 10 times; always created_keywords <= created_ad_groups <=
\* created_keywords + 1 <= n + 1, and both counters are n at Done.
C30_ExpandTerminates ==
    /\ [](cmd = "expand" =>
            /\ Cardinality(CampaignCreates) <= 1
            /\ check_calls <= MAX_ATTEMPTS
            /\ created_keywords <= created_ad_groups
            /\ created_ad_groups <= created_keywords + 1
            /\ created_keywords + 1 <= Len(ad_groups) + 1
            /\ (pc = "exit" /\ summary # <<>>) =>
                  /\ exit_code = <<0>>
                  /\ created_ad_groups = Len(ad_groups)
                  /\ created_keywords = Len(ad_groups))
    /\ (cmd = "expand" /\ confirmed = "yes")
          ~> (pc = "exit" /\ (exit_code = <<1>> \/ (exit_code = <<0>> /\ summary # <<>>)))

\* C30 witness: a confirmed plan of two ad groups is Done, after one campaigns.create
\* and a poll that returned
C30_Witness ==
    /\ cmd = "expand" /\ confirmed = "yes" /\ pc = "exit" /\ exit_code = <<0>>
    /\ poll_result = "returned" /\ "campaigns.get" \in reads
    /\ summary # <<>> /\ Len(ad_groups) = 2
    /\ created_ad_groups = 2 /\ created_keywords = 2
    /\ Cardinality(CampaignCreates) = 1

====
